---- MODULE Spec2Model ----
(***************************************************************************)
(* The DVC remote gateway of rint-data-manager                             *)
(* (src/backend/routers/dvc_remote.py, src/backend/dvc_auth.py).           *)
(*                                                                         *)
(* Strings are sequences of one-character strings, so that split, slicing  *)
(* and concatenation are computed as the Python code computes them.        *)
(* Filesystem paths (pathlib.Path) are sequences of components, an         *)
(* absolute path starting with the component "/".                          *)
(***************************************************************************)
EXTENDS Integers, Sequences, FiniteSets, TLC

\* ------------------------------------------------------------------------
\* Python string primitives
\* ------------------------------------------------------------------------
SEP == "/"

s_files == <<"f", "i", "l", "e", "s">>
s_md5 == <<"m", "d", "5">>
s_sha256 == <<"s", "h", "a", "2", "5", "6">>
s_sha1 == <<"s", "h", "a", "1">>
s_dotdir == <<".", "d", "i", "r">>
s_dotdvc == <<".", "d", "v", "c">>
s_dotdot == <<".", ".">>
s_dot == <<".">>
s_users == <<"u", "s", "e", "r", "s">>
s_user == <<"u", "s", "e", "r">>
s_info == <<"i", "n", "f", "o">>
s_regular == <<"r", "e", "g", "u", "l", "a", "r">>
s_root == <<SEP>>

Min(a, b) == IF a < b THEN a ELSE b

\* s[:n]
Prefix(s, n) == SubSeq(s, 1, Min(n, Len(s)))

\* s[n:]
Suffix(s, n) == SubSeq(s, n + 1, Len(s))

\* s.endswith(t)
EndsWith(s, t) == Len(s) >= Len(t) /\ SubSeq(s, Len(s) - Len(t) + 1, Len(s)) = t

\* t in s (substring test)
Contains(s, t) == \E i \in 1..(Len(s) - Len(t) + 1) : SubSeq(s, i, i + Len(t) - 1) = t

\* s.split('/'): always at least one part; adjacent separators give empty parts
RECURSIVE Split(_)
Split(s) ==
    IF \A i \in 1..Len(s) : s[i] # SEP
    THEN <<s>>
    ELSE LET i == CHOOSE k \in 1..Len(s) : s[k] = SEP /\ \A j \in 1..(k - 1) : s[j] # SEP
         IN  <<SubSeq(s, 1, i - 1)>> \o Split(SubSeq(s, i + 1, Len(s)))

\* '/'.join(parts)
RECURSIVE Join(_)
Join(parts) ==
    IF Len(parts) = 0 THEN <<>>
    ELSE IF Len(parts) = 1 THEN parts[1]
    ELSE parts[1] \o <<SEP>> \o Join(Tail(parts))

\* ------------------------------------------------------------------------
\* pathlib / operating-system path resolution
\* ------------------------------------------------------------------------

\* Path(...) / a / b: empty and "." components are dropped by pathlib
RECURSIVE PathJoin(_, _)
PathJoin(base, comps) ==
    IF Len(comps) = 0 THEN base
    ELSE IF Head(comps) = <<>> \/ Head(comps) = s_dot THEN PathJoin(base, Tail(comps))
    ELSE PathJoin(Append(base, Head(comps)), Tail(comps))

\* The location the operating system reaches for a path: ".." steps to the
\* parent (the root is its own parent)
RECURSIVE OsResolveFrom(_, _)
OsResolveFrom(acc, comps) ==
    IF Len(comps) = 0 THEN acc
    ELSE IF Head(comps) = s_dotdot
         THEN OsResolveFrom(IF Len(acc) > 1 THEN SubSeq(acc, 1, Len(acc) - 1) ELSE acc,
                            Tail(comps))
         ELSE OsResolveFrom(Append(acc, Head(comps)), Tail(comps))

OsResolve(p) == OsResolveFrom(<<>>, p)

\* Path.parent
Parent(p) == IF Len(p) > 1 THEN SubSeq(p, 1, Len(p) - 1) ELSE p

is_absolute(p) == Len(p) > 0 /\ p[1] = s_root

\* DVC_STORAGE_PATH = Path(config.dvc_config.get('storage_path', '/opt/dvc_storage'))
DVC_STORAGE_PATH ==
    <<s_root, <<"o", "p", "t">>, <<"d", "v", "c", "_", "s", "t", "o", "r", "a", "g", "e">>>>

\* the working directory of the server process
Cwd == <<s_root, <<"a", "p", "p">>>>

\* Path(file_path).resolve(): made absolute against the working directory,
\* ".." components resolved
path_resolve(file_path) ==
    LET parts == Split(file_path)
    IN  IF Len(file_path) > 0 /\ file_path[1] = SEP
        THEN OsResolve(PathJoin(<<s_root>>, parts))
        ELSE OsResolve(PathJoin(Cwd, parts))

\* str(path)
PathStr(p) ==
    IF is_absolute(p) THEN <<SEP>> \o Join(Tail(p)) ELSE Join(p)

\* ------------------------------------------------------------------------
\* Hash paths (dvc_remote.py)
\* ------------------------------------------------------------------------

\* Results of functions that may raise
Raise(e) == [exc |-> e]
Return(v) == [exc |-> "none", value |-> v]
Raised(r) == r.exc # "none"

\* variant: the remainder of the hash is not part of the path
get_file_path_from_hash_shard_only(file_hash) ==
    IF Len(file_hash) < 2
    THEN Raise("HTTP400")
    ELSE Return(PathJoin(DVC_STORAGE_PATH, <<s_files, s_md5, Prefix(file_hash, 2)>>))

\* variant: the length of the hash is not checked
get_file_path_from_hash_noguard(file_hash) ==
    Return(PathJoin(DVC_STORAGE_PATH,
                    <<s_files, s_md5, Prefix(file_hash, 2), Suffix(file_hash, 2)>>))

\* get_file_path_from_hash(file_hash, user_email): user_email is not used
get_file_path_from_hash(file_hash) ==
    IF Len(file_hash) < 2
    THEN Raise("HTTP400")
    ELSE Return(PathJoin(DVC_STORAGE_PATH,
                         <<s_files, s_md5, Prefix(file_hash, 2), Suffix(file_hash, 2)>>))

\* variant: paths of more than 4 segments are accepted
is_dvc_hash_path_prefix(file_path) ==
    LET parts == Split(file_path)
    IN  Len(parts) >= 4 /\ parts[1] = s_files /\ parts[2] \in {s_md5, s_sha256}

is_dvc_hash_path(file_path) ==
    LET parts == Split(file_path)
    IN  IF Len(parts) >= 4 /\ parts[1] = s_files
        THEN IF parts[2] \in {s_md5, s_sha256}
             THEN Len(parts) = 4
             ELSE FALSE
        ELSE FALSE

extract_hash_from_path(file_path) ==
    LET parts == Split(file_path)
    IN  IF Len(parts) >= 4
        THEN Return(parts[3] \o parts[4])
        ELSE Raise("ValueError")

\* ------------------------------------------------------------------------
\* Filesystem: F is the set of locations of regular files, D the set of
\* locations of directories
\* ------------------------------------------------------------------------
OsErr(e) == [err |-> e]
OsOk(l) == [err |-> "none", loc |-> l]

\* Path lookup by the operating system, one component at a time: every
\* component but the last must be reached through an existing directory
RECURSIVE OsWalk(_, _, _, _)
OsWalk(acc, comps, F, D) ==
    IF Len(comps) = 0 THEN OsOk(acc)
    ELSE IF acc \in F THEN OsErr("ENOTDIR")
    ELSE IF acc \notin D THEN OsErr("ENOENT")
    ELSE IF Head(comps) = s_dotdot
         THEN OsWalk(Parent(acc), Tail(comps), F, D)
         ELSE OsWalk(Append(acc, Head(comps)), Tail(comps), F, D)

OsLookup(p, F, D) == OsWalk(<<p[1]>>, Tail(p), F, D)

\* variant: every path is reported to exist
path_exists_always(p, F, D) == TRUE

\* Path.exists(), Path.is_file(), Path.is_dir()
path_exists(p, F, D) ==
    LET w == OsLookup(p, F, D) IN w.err = "none" /\ w.loc \in (F \cup D)

path_is_file(p, F, D) ==
    LET w == OsLookup(p, F, D) IN w.err = "none" /\ w.loc \in F

path_is_dir(p, F, D) ==
    LET w == OsLookup(p, F, D) IN w.err = "none" /\ w.loc \in D

\* os.mkdir(p): the new set of directories, or the error
os_mkdir(p, F, D) ==
    LET w == OsLookup(p, F, D)
        up == OsLookup(Parent(p), F, D)
    IN  IF up.err # "none" THEN OsErr(up.err)
        ELSE IF up.loc \in F THEN OsErr("ENOTDIR")
        ELSE IF up.loc \notin D THEN OsErr("ENOENT")
        ELSE IF w.loc \in (F \cup D) THEN OsErr("EEXIST")
        ELSE [err |-> "none", dirs |-> D \cup {w.loc}]

\* Path.mkdir(parents=True, exist_ok=True)
RECURSIVE mkdir_parents(_, _, _)
mkdir_parents(p, F, D) ==
    LET r == os_mkdir(p, F, D)
    IN  IF r.err = "none" THEN r
        ELSE IF r.err = "ENOENT"
        THEN IF Len(p) <= 1 THEN r
             ELSE LET up == mkdir_parents(Parent(p), F, D)
                  IN  IF up.err # "none" THEN up
                      ELSE LET again == os_mkdir(p, F, up.dirs)
                           IN  IF again.err = "none" THEN again
                               ELSE IF path_is_dir(p, F, up.dirs)
                                    THEN [err |-> "none", dirs |-> up.dirs]
                                    ELSE again
        ELSE IF path_is_dir(p, F, D) THEN [err |-> "none", dirs |-> D]
        ELSE r

\* open(p, 'wb'): the location that is created or truncated, or the error
os_open_wb(p, F, D) ==
    LET w == OsLookup(p, F, D)
        up == OsLookup(Parent(p), F, D)
    IN  IF up.err # "none" THEN OsErr(up.err)
        ELSE IF up.loc \in F THEN OsErr("ENOTDIR")
        ELSE IF up.loc \notin D THEN OsErr("ENOENT")
        ELSE IF w.loc \in D THEN OsErr("EISDIR")
        ELSE OsOk(w.loc)

\* ------------------------------------------------------------------------
\* Authentication (dvc_auth.py)
\* ------------------------------------------------------------------------
None == <<>>
Some(x) == <<x>>
IsNone(o) == o = <<>>
The(o) == o[1]

\* the users table
Users ==
    { [id |-> 1, email |-> "u1@example.com", password |-> "pw1", is_admin |-> FALSE] }

\* config.yml defaults of basic_auth and custom_auth (config.py)
basic_username == "dvc_user"
basic_password == "dvc_password"
custom_token == "your-custom-token-here"

Basic(u, pw) == Some([scheme |-> "basic", username |-> u, password |-> pw])

is_user_allowed_for_dvc(user, auth_config) ==
    IF auth_config.require_admin THEN user.is_admin
    ELSE IF auth_config.allowed_users # {} THEN user.email \in auth_config.allowed_users
    ELSE TRUE

\* the 403 raised for a user who is not allowed is caught by
\* "except Exception" and answered as 401
verify_database_auth(authorization, auth_config) ==
    IF IsNone(authorization) THEN Raise("HTTP401")
    ELSE LET h == The(authorization)
         IN  IF h.scheme # "basic" THEN Raise("HTTP401")
             ELSE IF ~(\E u \in Users : u.email = h.username) THEN Raise("HTTP401")
             ELSE LET user == CHOOSE u \in Users : u.email = h.username
                  IN  IF user.password # h.password THEN Raise("HTTP401")
                      ELSE IF ~is_user_allowed_for_dvc(user, auth_config)
                           THEN Raise("HTTP401")
                           ELSE Return(Some(user))

verify_basic_auth(authorization, auth_config) ==
    IF IsNone(authorization) THEN FALSE
    ELSE LET h == The(authorization)
         IN  IF h.scheme # "basic" THEN FALSE
             ELSE h.username = basic_username /\ h.password = basic_password

verify_custom_auth(x_dvc_token, auth_config) ==
    IF IsNone(x_dvc_token) THEN FALSE
    ELSE The(x_dvc_token) = custom_token

\* variant: with authentication disabled a dummy user is returned
verify_dvc_auth_dummy_user(authorization, x_dvc_token, auth_config) ==
    IF ~auth_config.enabled \/ auth_config.method = "none"
    THEN Return(Some(CHOOSE u \in Users : TRUE))
    ELSE IF auth_config.method = "database"
         THEN verify_database_auth(authorization, auth_config)
    ELSE IF auth_config.method \in {"basic", "custom"} THEN Return(None)
    ELSE Raise("HTTP401")

\* the results of verify_basic_auth and verify_custom_auth are not used
verify_dvc_auth(authorization, x_dvc_token, auth_config) ==
    IF ~auth_config.enabled THEN Return(None)
    ELSE IF auth_config.method = "database"
         THEN verify_database_auth(authorization, auth_config)
    ELSE IF auth_config.method = "basic"
         THEN LET ignored == verify_basic_auth(authorization, auth_config)
              IN  Return(None)
    ELSE IF auth_config.method = "custom"
         THEN LET ignored == verify_custom_auth(x_dvc_token, auth_config)
              IN  Return(None)
    ELSE IF auth_config.method = "none" THEN Return(None)
    ELSE Raise("HTTP401")

\* ------------------------------------------------------------------------
\* Structured files
\* ------------------------------------------------------------------------

\* The content of a structured file is a sequence of units, each a record of
\* one shape: tok names the unit, the other fields carry what it declares.
Unit(tok, md5, relpath, size, path, nfiles, data) ==
    [ tok |-> tok, md5 |-> md5, relpath |-> relpath, size |-> size, path |-> path,
      nfiles |-> nfiles, data |-> data ]

\* a unit of plain data
B(n) == Unit("byte", <<>>, <<>>, Some(n), None, None, <<>>)

\* YAML: the key "outs:" and one entry of its list, {path, size, nfiles}
Y_outs == Unit("outs:", <<>>, <<>>, None, None, None, <<>>)
Y_out(size, path, nfiles) == Unit("out", <<>>, <<>>, size, path, nfiles, <<>>)

\* YAML: an entry of "outs:" that carries its hash under md5 (or sha256)
Y_out_hash(md5, size, path, nfiles) == Unit("out", md5, <<>>, size, path, nfiles, <<>>)

\* JSON: the brackets of an array and one member object {md5, relpath}
J_open == Unit("[", <<>>, <<>>, None, None, None, <<>>)
J_close == Unit("]", <<>>, <<>>, None, None, None, <<>>)
J_member(md5, relpath) == Unit("member", md5, relpath, None, None, None, <<>>)

\* the value of a field that an object does not have
Missing == <<"(missing)">>

\* ZIP: one entry of an archive, its name and its data
Z_entry(name, data) == Unit("entry", <<>>, name, None, None, None, data)

\* a blob of plain data
Blob1 == <<B(1), B(2)>>

\* manifests as the upload workflow writes them beside a blob: one that
\* declares path, size and nfiles, one that declares only size, and one cut
\* off after its first key
s_n_txt == <<"n", ".", "t", "x", "t">>
yaml_a == <<Y_outs, Y_out(Some(7), Some(Join(<<<<"d">>, s_n_txt>>)), Some(2))>>
yaml_b == <<Y_outs, Y_out(Some(9), None, None)>>
yaml_cut == <<Y_outs>>

\* a directory manifest of one member: the blob efcd at relative path s/x
s_s_x == <<"s", "/", "x">>
manifest_x == <<J_open, J_member(<<"e", "f", "c", "d">>, s_s_x), J_close>>

\* what may lie beside a blob: the three manifests above or a member list
SidecarDocs == {yaml_a, yaml_b, yaml_cut, manifest_x}

\* ------------------------------------------------------------------------
\* Request inputs
\* ------------------------------------------------------------------------

\* bound: requests issued in one behaviour
MaxReq == 2

\* bound: units read per chunk by the file response of GET
ChunkSize == 1

h_ab == <<"a", "b">>
h_cd == <<"c", "d">>
h_ef == <<"e", "f">>
h_abc == <<"a", "b", "c">>
h_long == <<"c", "d", "0", "1", "2", "3", "4", "5">>

p_md5_ab_cd == Join(<<s_files, s_md5, h_ab, h_cd>>)
p_sha256_ab_cd == Join(<<s_files, s_sha256, h_ab, h_cd>>)
p_md5_ef_cd == Join(<<s_files, s_md5, h_ef, h_cd>>)
p_md5_abc_d == Join(<<s_files, s_md5, h_abc, <<"d">>>>)
p_md5_ab_cd_dir == Join(<<s_files, s_md5, h_ab, h_cd \o s_dotdir>>)
p_md5_a_empty == Join(<<s_files, s_md5, <<"a">>, <<>>>>)
p_md5_empty_empty == Join(<<s_files, s_md5, <<>>, <<>>>>)
p_md5_ab == Join(<<s_files, s_md5, h_ab>>)
p_regular_file == Join(<<s_regular, <<"f">>>>)
p_user_info == Join(<<s_user, s_info>>)
p_md5_ab_ce == Join(<<s_files, s_md5, h_ab, <<"c", "e">>>>)
p_md5_ab_long == Join(<<s_files, s_md5, h_ab, h_long>>)
p_md5_dotdot_x == Join(<<s_files, s_md5, s_dotdot, <<"x">>>>)
p_dotdot_file == Join(<<s_dotdot, <<"f">>>>)

\* request bodies: byte strings, none a prefix of another
Body1 == <<1, 2>>
Body2 == <<3>>
Bodies == {Body1, Body2}

\* request credentials: the Authorization and X-DVC-Token headers
c_absent == [authorization |-> None, x_dvc_token |-> None]
c_user == [authorization |-> Basic("u1@example.com", "pw1"), x_dvc_token |-> None]
c_wrong == [authorization |-> Basic("u1@example.com", "bad"), x_dvc_token |-> Some("bad")]
c_shared == [authorization |-> Basic(basic_username, basic_password),
             x_dvc_token |-> Some(custom_token)]

\* config.dvc_remote['auth'] (config.py)
AuthConfig(en, meth, adm) ==
    [enabled |-> en, method |-> meth, require_admin |-> adm, allowed_users |-> {}]

cfg_default == AuthConfig(TRUE, "database", FALSE)

AuthConfigs ==
    { cfg_default,
      AuthConfig(TRUE, "database", TRUE),
      AuthConfig(TRUE, "basic", FALSE),
      AuthConfig(TRUE, "custom", FALSE),
      AuthConfig(TRUE, "none", FALSE),
      AuthConfig(TRUE, "ldap", FALSE),
      AuthConfig(FALSE, "database", FALSE) }

\* the requests clients send, by universe
Paths(u) ==
    IF u = "hash paths"
    THEN {p_md5_ab_cd, p_sha256_ab_cd, p_md5_a_empty, p_md5_empty_empty}
    ELSE IF u = "credentials" THEN {p_md5_ab_cd}
    ELSE IF u = "distinct hashes" THEN {p_md5_ab_cd, p_md5_ab_ce}
    ELSE IF u = "sidecars" THEN {p_md5_ab_long}
    ELSE IF u = "directory manifest" THEN {p_md5_ab_cd_dir}
    ELSE IF u = "literal paths" THEN {p_regular_file, p_md5_dotdot_x, p_dotdot_file}
    ELSE IF u = "routes" THEN {p_user_info, p_md5_ab_cd}
    ELSE IF u = "garbage collection" THEN {p_md5_ab_cd}
    ELSE IF u = "aliases" THEN {p_md5_ab_cd, p_sha256_ab_cd, p_md5_abc_d}
    ELSE {}

Creds(u) ==
    IF u = "hash paths" THEN {c_user}
    ELSE IF u = "credentials" THEN {c_absent, c_user, c_wrong, c_shared}
    ELSE IF u \in {"distinct hashes", "sidecars", "directory manifest"} THEN {c_user}
    ELSE IF u = "literal paths" THEN {c_user}
    ELSE IF u = "routes" THEN {c_user, c_wrong}
    ELSE IF u \in {"garbage collection", "aliases"} THEN {c_user}
    ELSE {}

BodiesOf(u) ==
    IF u = "hash paths" THEN Bodies
    ELSE IF u = "credentials" THEN {Body1}
    ELSE IF u = "distinct hashes" THEN Bodies
    ELSE IF u = "sidecars" THEN {Blob1}
    ELSE IF u = "directory manifest" THEN {manifest_x}
    ELSE IF u = "literal paths" THEN Bodies
    ELSE IF u = "routes" THEN {Body1}
    ELSE IF u = "garbage collection" THEN {Body1}
    ELSE IF u = "aliases" THEN Bodies
    ELSE {}

\* ------------------------------------------------------------------------
\* State
\* ------------------------------------------------------------------------
VARIABLES
    cfg,         \* the auth configuration of the running server
    universe,    \* names the request paths, credentials and bodies clients use
    files,       \* regular files: location -> content
    dirs,        \* directories: set of locations
    data_items,  \* the data_items table, in insertion order
    reqs,        \* requests suspended at an await
    resp,        \* the last response sent
    nreq,        \* requests issued so far
    put_hist,    \* history: request path -> body and location of its last upload
    call,        \* the last direct call of a path function and its result
    uploaded_metadata  \* the uploaded_metadata table, in insertion order

vars == <<cfg, universe, files, dirs, data_items, reqs, resp, nreq, put_hist, call,
          uploaded_metadata>>

NoFiles == [l \in {} |-> <<>>]

Remove(f, l) == [x \in (DOMAIN f) \ {l} |-> f[x]]

RECURSIVE Ancestors(_)
Ancestors(p) == IF Len(p) <= 1 THEN {p} ELSE {p} \cup Ancestors(Parent(p))

\* setup_dvc_storage.py has created the storage root and users/
InitDirs == Ancestors(Append(DVC_STORAGE_PATH, s_users)) \cup Ancestors(Cwd)

NoResp == [id |-> 0]
NoCall == [fn |-> "none"]

InitStore ==
    /\ files = NoFiles
    /\ dirs = InitDirs
    /\ data_items = <<>>
    /\ reqs = {}
    /\ resp = NoResp
    /\ nreq = 0
    /\ uploaded_metadata = <<>>
    /\ put_hist = NoFiles
    /\ call = NoCall

\* ------------------------------------------------------------------------
\* Catalog records for uploads (dvc_remote.py)
\* ------------------------------------------------------------------------

\* Path.name
PathName(p) == p[Len(p)]

\* Path.parent / f"{Path.name}{suffix}"
Sibling(p, suffix) == Append(Parent(p), PathName(p) \o suffix)

\* yaml.safe_load(f)['outs'] of a stored file, <<>> in every case in which
\* the code finds no first output: the document is no mapping with an
\* 'outs' list, the list is empty, or loading raises
yaml_outs(content) ==
    IF /\ Len(content) >= 1
       /\ content[1].tok = "outs:"
       /\ \A i \in 2..Len(content) : content[i].tok = "out"
    THEN Tail(content)
    ELSE <<>>

\* Path(s).name: the last component, empty when the path has none
path_name(s) ==
    LET comps == PathJoin(<<>>, Split(s))
    IN  IF Len(comps) = 0 THEN <<>> ELSE comps[Len(comps)]

s_dvc_dir_ == <<"d", "v", "c", "_", "d", "i", "r", "_">>
s_dvc_file_ == <<"d", "v", "c", "_", "f", "i", "l", "e", "_">>

create_data_item_from_dvc_upload(file_path, file_hash, user, is_directory, file_size, file_count, original_filename) ==
    [ name |-> IF ~IsNone(original_filename) /\ The(original_filename) # <<>>
               THEN The(original_filename)
               ELSE IF is_directory THEN s_dvc_dir_ \o Prefix(file_hash, 8)
               ELSE s_dvc_file_ \o Prefix(file_hash, 8),
      file_path |-> file_path,
      hash |-> file_hash,
      file_size |-> file_size,
      is_folder |-> is_directory,
      file_count |-> file_count,
      user_id |-> user.id ]

\* variant: the declared path is taken whole
extract_original_filename_from_dvc_file_whole_path(dvc_file_path, FS, D) ==
    IF path_is_file(dvc_file_path, DOMAIN FS, D)
    THEN LET outs == yaml_outs(FS[OsLookup(dvc_file_path, DOMAIN FS, D).loc])
         IN  IF Len(outs) > 0 /\ ~IsNone(outs[1].path) /\ The(outs[1].path) # <<>>
             THEN outs[1].path
             ELSE None
    ELSE None

extract_original_filename_from_dvc_file(dvc_file_path, FS, D) ==
    IF path_is_file(dvc_file_path, DOMAIN FS, D)
    THEN LET outs == yaml_outs(FS[OsLookup(dvc_file_path, DOMAIN FS, D).loc])
         IN  IF Len(outs) > 0 /\ ~IsNone(outs[1].path) /\ The(outs[1].path) # <<>>
             THEN Some(path_name(The(outs[1].path)))
             ELSE None
    ELSE None

extract_metadata_from_dvc_file(file_path, FS, D) ==
    IF path_is_file(file_path, DOMAIN FS, D)
    THEN LET outs == yaml_outs(FS[OsLookup(file_path, DOMAIN FS, D).loc])
         IN  IF Len(outs) > 0
             THEN [ is_directory |-> EndsWith(PathStr(file_path), s_dotdir),
                    file_size |-> outs[1].size,
                    file_count |-> IF IsNone(outs[1].nfiles) THEN Some(1)
                                   ELSE outs[1].nfiles ]
             ELSE [is_directory |-> FALSE, file_size |-> None, file_count |-> None]
    ELSE [is_directory |-> FALSE, file_size |-> None, file_count |-> None]

\* variant: the .dvc manifest is tried before the .dir manifest
handle_dvc_upload_data_item_creation_dvc_first(file_path, full_path, user, FS, D) ==
    IF is_dvc_hash_path(file_path)
    THEN LET file_hash == extract_hash_from_path(file_path).value
             dvc_file_path == Sibling(full_path, s_dotdvc)
             dir_file_path == Sibling(full_path, s_dotdir)
             F == DOMAIN FS
             metadata ==
                 IF path_exists(dvc_file_path, F, D)
                 THEN [extract_metadata_from_dvc_file(dvc_file_path, FS, D)
                          EXCEPT !.is_directory = FALSE]
                 ELSE IF path_exists(dir_file_path, F, D)
                 THEN [extract_metadata_from_dvc_file(dir_file_path, FS, D)
                          EXCEPT !.is_directory = TRUE]
                 ELSE IF path_is_file(full_path, F, D)
                 THEN [ is_directory |-> FALSE,
                        file_size |-> Some(Len(FS[OsLookup(full_path, F, D).loc])),
                        file_count |-> Some(1) ]
                 ELSE [is_directory |-> FALSE, file_size |-> None, file_count |-> None]
             original_filename ==
                 IF path_exists(dvc_file_path, F, D)
                 THEN extract_original_filename_from_dvc_file(dvc_file_path, FS, D)
                 ELSE IF path_exists(dir_file_path, F, D)
                 THEN extract_original_filename_from_dvc_file(dir_file_path, FS, D)
                 ELSE None
         IN  Some(create_data_item_from_dvc_upload(
                      file_path, file_hash, user, metadata.is_directory,
                      metadata.file_size, metadata.file_count, original_filename))
    ELSE None

\* the DataItem to insert, None when the path is not a hash path
handle_dvc_upload_data_item_creation(file_path, full_path, user, FS, D) ==
    IF is_dvc_hash_path(file_path)
    THEN LET file_hash == extract_hash_from_path(file_path).value
             dvc_file_path == Sibling(full_path, s_dotdvc)
             dir_file_path == Sibling(full_path, s_dotdir)
             F == DOMAIN FS
             metadata ==
                 IF path_exists(dir_file_path, F, D)
                 THEN [extract_metadata_from_dvc_file(dir_file_path, FS, D)
                          EXCEPT !.is_directory = TRUE]
                 ELSE IF path_exists(dvc_file_path, F, D)
                 THEN [extract_metadata_from_dvc_file(dvc_file_path, FS, D)
                          EXCEPT !.is_directory = FALSE]
                 ELSE IF path_is_file(full_path, F, D)
                 THEN [ is_directory |-> FALSE,
                        file_size |-> Some(Len(FS[OsLookup(full_path, F, D).loc])),
                        file_count |-> Some(1) ]
                 ELSE [is_directory |-> FALSE, file_size |-> None, file_count |-> None]
             original_filename ==
                 IF path_exists(dir_file_path, F, D)
                 THEN extract_original_filename_from_dvc_file(dir_file_path, FS, D)
                 ELSE IF path_exists(dvc_file_path, F, D)
                 THEN extract_original_filename_from_dvc_file(dvc_file_path, FS, D)
                 ELSE None
         IN  Some(create_data_item_from_dvc_upload(
                      file_path, file_hash, user, metadata.is_directory,
                      metadata.file_size, metadata.file_count, original_filename))
    ELSE None

\* variant: the failure of db.commit() is caught nowhere
catalog_exception_uncaught(committed) == IF committed THEN "none" ELSE "DBError"

\* the exception that leaves "if user: try: ... except Exception" (lines
\* 326-331) when db.commit() raises in create_data_item_from_dvc_upload:
\* handle_dvc_upload_data_item_creation catches it (162-164), and so would
\* the caller (329-331); str(user.email) of the response (line 336) is taken
\* to succeed on the user object loaded during authentication
catalog_exception(committed) == "none"

\* ------------------------------------------------------------------------
\* Request handlers (dvc_remote.py)
\* ------------------------------------------------------------------------

\* md5(user_email).hexdigest()[:8], an opaque directory name
UserDir(email) == <<"u", "1">>

get_user_storage_path(user_email) ==
    PathJoin(DVC_STORAGE_PATH, <<s_users, UserDir(user_email)>>)

\* base / other: an absolute right operand replaces the base
PathConcat(base, other) ==
    IF is_absolute(other) THEN other ELSE PathJoin(base, other)

\* the path resolution shared by the GET, PUT and HEAD handlers:
\* the full path, or the HTTP error raised
resolve_request_path(file_path, user) ==
    IF is_dvc_hash_path(file_path)
    THEN LET h == extract_hash_from_path(file_path)
         IN  IF Raised(h) THEN Raise("HTTP400")
             ELSE get_file_path_from_hash(h.value)
    ELSE LET safe_path == path_resolve(file_path)
         IN  IF is_absolute(safe_path) \/ Contains(PathStr(safe_path), s_dotdot)
             THEN Raise("HTTP400")
             ELSE Return(PathConcat(
                      IF ~IsNone(user) THEN get_user_storage_path(The(user).email)
                      ELSE DVC_STORAGE_PATH,
                      safe_path))

StatusOf(exc) ==
    IF exc = "none" THEN 200
    ELSE IF exc = "HTTP400" THEN 400
    ELSE IF exc = "HTTP401" THEN 401
    ELSE IF exc = "HTTP403" THEN 403
    ELSE IF exc = "HTTP404" THEN 404
    ELSE 500

UserEmail(user) == IF IsNone(user) THEN None ELSE Some(The(user).email)

\* history: the body an undisturbed read of request path p has to find
Expected(p) == IF p \in DOMAIN put_hist THEN Some(put_hist[p].body) ELSE None

\* a response: exc is the exception that ended the handler, size is set by
\* HEAD, body by GET; expect is history (for an upload, the body its path
\* held before the write)
Response(id, m, p, c, user, size, body, expect) ==
    [ id |-> id, method |-> m, path |-> p, cred |-> c, exc |-> "none", status |-> 200,
      user_email |-> UserEmail(user), size |-> size, body |-> body,
      expect |-> expect ]

Fail(id, m, p, c, exc) ==
    [ id |-> id, method |-> m, path |-> p, cred |-> c, exc |-> exc,
      status |-> StatusOf(exc), user_email |-> None, size |-> None, body |-> None,
      expect |-> IF exc = "HTTP401" \/ m \notin {"HEAD", "GET"} THEN None
                 ELSE Expected(p) ]

Uploads == {"PUT", "POST"}

\* variant: the file is opened for appending
write_append(FS, loc, content, k) ==
    (loc :> ((IF loc \in DOMAIN FS THEN FS[loc] ELSE <<>>) \o Prefix(content, k))) @@ FS

\* variant: the last unit written is lost
write_drop_last(FS, loc, content, k) ==
    (loc :> Prefix(content, IF k > 0 THEN k - 1 ELSE 0)) @@ FS

\* what open(full_path, 'wb') and f.write(content) leave when the write gets
\* through k units: the file is created or truncated in place

write_in_place(FS, loc, content, k) == (loc :> Prefix(content, k)) @@ FS

\* upload_dvc_file up to "content = await request.body()" (lines 283-320):
\* authentication, path resolution, mkdir of the parent
UploadBegin(m, p, c, b) ==
    /\ nreq < MaxReq
    /\ nreq' = nreq + 1
    /\ LET id == nreq + 1
           auth == verify_dvc_auth(c.authorization, c.x_dvc_token, cfg)
       IN  IF Raised(auth)
           THEN /\ resp' = Fail(id, m, p, c, auth.exc)
                /\ UNCHANGED <<dirs, reqs>>
           ELSE LET r == resolve_request_path(p, auth.value)
                IN  IF Raised(r)
                    THEN /\ resp' = Fail(id, m, p, c, r.exc)
                         /\ UNCHANGED <<dirs, reqs>>
                    ELSE LET mk == mkdir_parents(Parent(r.value), DOMAIN files, dirs)
                         IN  IF mk.err # "none"
                             THEN /\ resp' = Fail(id, m, p, c, "OSError")
                                  /\ UNCHANGED <<dirs, reqs>>
                             ELSE /\ dirs' = mk.dirs
                                  /\ reqs' = reqs \cup
                                        {[ id |-> id, method |-> m, path |-> p, cred |-> c,
                                           user |-> auth.value, full_path |-> r.value,
                                           content |-> b ]}
                                  /\ UNCHANGED resp
    /\ UNCHANGED <<uploaded_metadata, cfg, universe, files, data_items, put_hist, call>>

\* history: a GET that is streaming the file at loc no longer expects the
\* body it started with
Disturb(rs, loc) ==
    { IF r.method = "GET" /\ r.eloc = Some(loc)
      THEN [r EXCEPT !.expect = None] ELSE r : r \in rs }

\* history: the upload of r wrote at loc; entries of other paths stored at
\* loc are void
Written(hist, r, loc, complete) ==
    LET keep == { q \in DOMAIN hist : hist[q].loc # loc /\ q # r.path }
        rest == [q \in keep |-> hist[q]]
    IN  IF complete THEN (r.path :> [body |-> r.content, loc |-> loc]) @@ rest
        ELSE rest

\* variant: the catalog record is made before the body is written, so a
\* write that fails leaves it behind
UploadFinish_record_first(r, k, committed) ==
    /\ r \in reqs /\ r.method \in Uploads
    /\ k \in 0..Len(r.content)
    /\ LET o == os_open_wb(r.full_path, DOMAIN files, dirs)
       IN  IF o.err # "none"
           THEN /\ resp' = Fail(r.id, r.method, r.path, r.cred, "OSError")
                /\ reqs' = reqs \ {r}
                /\ UNCHANGED <<files, data_items, put_hist>>
           ELSE /\ files' = write_in_place(files, o.loc, r.content, k)
                /\ reqs' = Disturb(reqs \ {r}, o.loc)
                /\ put_hist' = Written(put_hist, r, o.loc, k = Len(r.content))
                /\ IF k < Len(r.content)
                   THEN /\ resp' = [Fail(r.id, r.method, r.path, r.cred, "IOError")
                                       EXCEPT !.expect = Expected(r.path)]
                        /\ LET item == IF IsNone(r.user) THEN None
                                       ELSE handle_dvc_upload_data_item_creation(
                                                r.path, r.full_path, The(r.user), files', dirs)
                           IN  data_items' = IF ~IsNone(item) /\ committed
                                             THEN Append(data_items, The(item))
                                             ELSE data_items
                   ELSE /\ LET item == IF IsNone(r.user) THEN None
                                       ELSE handle_dvc_upload_data_item_creation(
                                                r.path, r.full_path, The(r.user), files', dirs)
                           IN  data_items' = IF ~IsNone(item) /\ committed
                                             THEN Append(data_items, The(item))
                                             ELSE data_items
                        /\ resp' = IF catalog_exception(committed) # "none"
                                   THEN Fail(r.id, r.method, r.path, r.cred,
                                             catalog_exception(committed))
                                   ELSE Response(r.id, r.method, r.path, r.cred,
                                                 r.user, None, None, Expected(r.path))
    /\ UNCHANGED <<uploaded_metadata, cfg, universe, dirs, nreq, call>>

\* upload_dvc_file from "with open(full_path, 'wb')" to the response
\* (lines 322-337); the write fails with an I/O error after k units when
\* k < len(content); committed: db.commit() of the DataItem succeeds
UploadFinish(r, k, committed) ==
    /\ r \in reqs /\ r.method \in Uploads
    /\ k \in 0..Len(r.content)
    /\ LET o == os_open_wb(r.full_path, DOMAIN files, dirs)
       IN  IF o.err # "none"
           THEN /\ resp' = Fail(r.id, r.method, r.path, r.cred, "OSError")
                /\ reqs' = reqs \ {r}
                /\ UNCHANGED <<files, data_items, put_hist>>
           ELSE /\ files' = write_in_place(files, o.loc, r.content, k)
                /\ reqs' = Disturb(reqs \ {r}, o.loc)
                /\ put_hist' = Written(put_hist, r, o.loc, k = Len(r.content))
                /\ IF k < Len(r.content)
                   THEN /\ resp' = [Fail(r.id, r.method, r.path, r.cred, "IOError")
                                       EXCEPT !.expect = Expected(r.path)]
                        /\ UNCHANGED data_items
                   ELSE /\ LET item == IF IsNone(r.user) THEN None
                                       ELSE handle_dvc_upload_data_item_creation(
                                                r.path, r.full_path, The(r.user), files', dirs)
                           IN  data_items' = IF ~IsNone(item) /\ committed
                                             THEN Append(data_items, The(item))
                                             ELSE data_items
                        /\ resp' = IF catalog_exception(committed) # "none"
                                   THEN Fail(r.id, r.method, r.path, r.cred,
                                             catalog_exception(committed))
                                   ELSE Response(r.id, r.method, r.path, r.cred,
                                                 r.user, None, None, Expected(r.path))
    /\ UNCHANGED <<uploaded_metadata, cfg, universe, dirs, nreq, call>>

\* variant: the probe makes the parent directories of the location, as the
\* upload does
HeadRequest_mkdir(p, c) ==
    /\ nreq < MaxReq
    /\ nreq' = nreq + 1
    /\ LET id == nreq + 1
           auth == verify_dvc_auth(c.authorization, c.x_dvc_token, cfg)
           F == DOMAIN files
       IN  IF Raised(auth)
           THEN resp' = Fail(id, "HEAD", p, c, auth.exc) /\ UNCHANGED dirs
           ELSE LET r == resolve_request_path(p, auth.value)
                IN  IF Raised(r)
                    THEN resp' = Fail(id, "HEAD", p, c, r.exc) /\ UNCHANGED dirs
                    ELSE /\ dirs' = mkdir_parents(Parent(r.value), F, dirs).dirs
                         /\ IF ~path_is_file(r.value, F, dirs)
                            THEN resp' = Fail(id, "HEAD", p, c, "HTTP404")
                            ELSE resp' = Response(id, "HEAD", p, c, auth.value,
                                          Some(Len(files[OsLookup(r.value, F, dirs).loc])),
                                          None, Expected(p))
    /\ UNCHANGED <<uploaded_metadata, cfg, universe, files, data_items, reqs, put_hist, call>>

\* head_dvc_file (lines 353-414)
HeadRequest(p, c) ==
    /\ nreq < MaxReq
    /\ nreq' = nreq + 1
    /\ LET id == nreq + 1
           auth == verify_dvc_auth(c.authorization, c.x_dvc_token, cfg)
           F == DOMAIN files
       IN  IF Raised(auth)
           THEN resp' = Fail(id, "HEAD", p, c, auth.exc)
           ELSE LET r == resolve_request_path(p, auth.value)
                IN  IF Raised(r)
                    THEN resp' = Fail(id, "HEAD", p, c, r.exc)
                    ELSE IF ~path_exists(r.value, F, dirs)
                    THEN resp' = Fail(id, "HEAD", p, c, "HTTP404")
                    ELSE IF ~path_is_file(r.value, F, dirs)
                    THEN resp' = Fail(id, "HEAD", p, c, "HTTP400")
                    ELSE resp' = Response(id, "HEAD", p, c, auth.value,
                                          Some(Len(files[OsLookup(r.value, F, dirs).loc])),
                                          None, Expected(p))
    /\ UNCHANGED <<uploaded_metadata, cfg, universe, files, dirs, data_items, reqs, put_hist, call>>

\* get_dvc_file (lines 211-272): the handler returns a FileResponse, which
\* then reads the file chunk by chunk
GetBegin(p, c) ==
    /\ nreq < MaxReq
    /\ nreq' = nreq + 1
    /\ LET id == nreq + 1
           auth == verify_dvc_auth(c.authorization, c.x_dvc_token, cfg)
           F == DOMAIN files
       IN  IF Raised(auth)
           THEN resp' = Fail(id, "GET", p, c, auth.exc) /\ UNCHANGED reqs
           ELSE LET r == resolve_request_path(p, auth.value)
                IN  IF Raised(r)
                    THEN resp' = Fail(id, "GET", p, c, r.exc) /\ UNCHANGED reqs
                    ELSE IF ~path_exists(r.value, F, dirs)
                    THEN resp' = Fail(id, "GET", p, c, "HTTP404") /\ UNCHANGED reqs
                    ELSE IF ~path_is_file(r.value, F, dirs)
                    THEN resp' = Fail(id, "GET", p, c, "HTTP400") /\ UNCHANGED reqs
                    ELSE /\ reqs' = reqs \cup
                               {[ id |-> id, method |-> "GET", path |-> p, cred |-> c,
                                  user |-> auth.value, full_path |-> r.value,
                                  acc |-> <<>>, expect |-> Expected(p),
                                  eloc |-> IF p \in DOMAIN put_hist
                                           THEN Some(put_hist[p].loc) ELSE None ]}
                         /\ UNCHANGED resp
    /\ UNCHANGED <<uploaded_metadata, cfg, universe, files, dirs, data_items, put_hist, call>>

\* the FileResponse of a GET reads the next chunk; a short chunk ends the body
GetChunk(r) ==
    /\ r \in reqs /\ r.method = "GET"
    /\ LET F == DOMAIN files
           w == OsLookup(r.full_path, F, dirs)
       IN  IF ~path_is_file(r.full_path, F, dirs)
           THEN /\ resp' = [Fail(r.id, "GET", r.path, r.cred, "OSError")
                               EXCEPT !.expect = r.expect]
                /\ reqs' = reqs \ {r}
           ELSE LET data == files[w.loc]
                    chunk == SubSeq(data, Len(r.acc) + 1,
                                    Min(Len(r.acc) + ChunkSize, Len(data)))
                    acc == r.acc \o chunk
                IN  IF Len(chunk) = ChunkSize
                    THEN /\ reqs' = (reqs \ {r}) \cup {[r EXCEPT !.acc = acc]}
                         /\ UNCHANGED resp
                    ELSE /\ reqs' = reqs \ {r}
                         /\ resp' = Response(r.id, "GET", r.path, r.cred, r.user,
                                             None, Some(acc), r.expect)
    /\ UNCHANGED <<uploaded_metadata, cfg, universe, files, dirs, data_items, nreq, put_hist, call>>

\* ------------------------------------------------------------------------
\* Catalog downloads (data.py)
\* ------------------------------------------------------------------------

\* os.path.join(a, *rest): a component that starts with a separator
\* replaces what precedes it
RECURSIVE os_path_join(_, _)
os_path_join(a, rest) ==
    IF Len(rest) = 0 THEN a
    ELSE LET b == Head(rest)
         IN  IF Len(b) > 0 /\ b[1] = SEP THEN os_path_join(b, Tail(rest))
             ELSE IF Len(a) = 0 \/ a[Len(a)] = SEP THEN os_path_join(a \o b, Tail(rest))
             ELSE os_path_join(a \o <<SEP>> \o b, Tail(rest))

\* the path the operating system walks for a path string
os_path_parse(s) ==
    IF Len(s) > 0 /\ s[1] = SEP THEN PathJoin(<<s_root>>, Split(s))
    ELSE PathJoin(Cwd, Split(s))

\* os.path.normpath of a relative name, as components
RECURSIVE normpath(_, _)
normpath(acc, comps) ==
    IF Len(comps) = 0 THEN acc
    ELSE IF Head(comps) = <<>> \/ Head(comps) = s_dot THEN normpath(acc, Tail(comps))
    ELSE IF Head(comps) = s_dotdot /\ Len(acc) > 0 /\ acc[Len(acc)] # s_dotdot
         THEN normpath(SubSeq(acc, 1, Len(acc) - 1), Tail(comps))
    ELSE normpath(Append(acc, Head(comps)), Tail(comps))

\* the name ZipFile.write gives an entry: arcname normalised, leading
\* separators removed
zip_arcname(rel_path) == Join(normpath(<<>>, Split(rel_path)))

\* config.get_dvc_storage_path()
get_dvc_storage_path == PathStr(DVC_STORAGE_PATH)

get_dvc_file_path_from_hash(file_hash, storage_path) ==
    IF Len(file_hash) < 2
    THEN Raise("HTTP400")
    ELSE Return(os_path_join(storage_path,
                   <<s_files, s_md5, Prefix(file_hash, 2), Suffix(file_hash, 2)>>))

\* json.load(f): the members of an array of member objects
json_load(content) ==
    IF /\ Len(content) >= 2
       /\ content[1].tok = "[" /\ content[Len(content)].tok = "]"
       /\ \A i \in 2..(Len(content) - 1) : content[i].tok = "member"
    THEN Return(SubSeq(content, 2, Len(content) - 1))
    ELSE Raise("JSONDecodeError")

read_dir_metadata(dir_file_path, FS, D) ==
    LET p == os_path_parse(dir_file_path)
    IN  IF ~path_exists(p, DOMAIN FS, D) THEN Raise("HTTP404")
        ELSE IF ~path_is_file(p, DOMAIN FS, D) THEN Raise("IsADirectoryError")
        ELSE LET v == json_load(FS[OsLookup(p, DOMAIN FS, D).loc])
             IN  IF Raised(v) THEN Raise("HTTP404") ELSE v

\* variant: the first member whose blob is missing ends the loop
RECURSIVE zip_members_until_missing(_, _, _, _)
zip_members_until_missing(file_list, storage_path, FS, D) ==
    IF Len(file_list) = 0 THEN Return(<<>>)
    ELSE LET file_info == Head(file_list)
             actual == get_dvc_file_path_from_hash(file_info.md5, storage_path)
         IN  IF Raised(actual) \/ ~path_is_file(os_path_parse(actual.value), DOMAIN FS, D)
             THEN Return(<<>>)
             ELSE LET rest == zip_members_until_missing(Tail(file_list), storage_path, FS, D)
                  IN  Return(<<Z_entry(zip_arcname(file_info.relpath),
                                 FS[OsLookup(os_path_parse(actual.value), DOMAIN FS, D).loc])>>
                                \o rest.value)

\* variant: a member object without md5 or relpath is passed over
RECURSIVE zip_members_skip_malformed(_, _, _, _)
zip_members_skip_malformed(file_list, storage_path, FS, D) ==
    IF Len(file_list) = 0 THEN Return(<<>>)
    ELSE LET file_info == Head(file_list)
             rest == zip_members_skip_malformed(Tail(file_list), storage_path, FS, D)
         IN  IF file_info.md5 = Missing \/ file_info.relpath = Missing THEN rest
             ELSE LET actual == get_dvc_file_path_from_hash(file_info.md5, storage_path)
                  IN  IF Raised(actual) THEN rest
                      ELSE LET p == os_path_parse(actual.value)
                           IN  IF path_is_file(p, DOMAIN FS, D)
                               THEN Return(<<Z_entry(zip_arcname(file_info.relpath),
                                               FS[OsLookup(p, DOMAIN FS, D).loc])>>
                                              \o rest.value)
                               ELSE rest

\* the loop of create_folder_zip (lines 250-265): the entries written for
\* file_list, in order, or the KeyError of file_info['md5'] or
\* file_info['relpath'] (lines 251-252, outside the try)
RECURSIVE zip_members(_, _, _, _)
zip_members(file_list, storage_path, FS, D) ==
    IF Len(file_list) = 0 THEN Return(<<>>)
    ELSE LET file_info == Head(file_list)
         IN  IF file_info.md5 = Missing \/ file_info.relpath = Missing
             THEN Raise("KeyError")
             ELSE LET actual == get_dvc_file_path_from_hash(file_info.md5, storage_path)
                      rest == zip_members(Tail(file_list), storage_path, FS, D)
                      p == os_path_parse(actual.value)
                      entry ==
                          IF Raised(actual) THEN <<>>
                          ELSE IF path_is_file(p, DOMAIN FS, D)
                          THEN <<Z_entry(zip_arcname(file_info.relpath),
                                         FS[OsLookup(p, DOMAIN FS, D).loc])>>
                          ELSE IF path_is_dir(p, DOMAIN FS, D)
                          THEN <<Z_entry(zip_arcname(file_info.relpath) \o <<SEP>>, <<>>)>>
                          ELSE <<>>
                  IN  IF Raised(rest) THEN rest ELSE Return(entry \o rest.value)

\* create_folder_zip: the content of the ZIP file written at zip_path
create_folder_zip(folder_name, file_list, storage_path, FS, D) ==
    zip_members(file_list, storage_path, FS, D)

\* get_dvc_content (lines 423-464): the YAML text generated from the
\* catalog record; the constant key hash: md5 is not represented
get_dvc_content(item_id, items) ==
    IF item_id \notin 1..Len(items) THEN Raise("HTTP404")
    ELSE LET data_item == items[item_id]
         IN  IF data_item.hash = <<>> THEN Raise("HTTP404")
             ELSE Return(<<Y_outs,
                           Y_out_hash(data_item.hash, data_item.file_size,
                                      Some(data_item.name),
                                      IF data_item.is_folder
                                      THEN (IF IsNone(data_item.file_count)
                                               \/ data_item.file_count = Some(0)
                                            THEN Some(1) ELSE data_item.file_count)
                                      ELSE None)>>)

\* upload_metadata (lines 124-149): file hash and original filename read
\* from the uploaded .dvc text; the HTTP 400 raised inside the try is turned
\* into 500 by "except Exception" (lines 211-213)
parse_uploaded_dvc(content) ==
    LET outs == yaml_outs(content)
    IN  IF Len(outs) = 0 THEN Raise("HTTP500")
        ELSE IF outs[1].md5 = <<>> THEN Raise("HTTP500")
        ELSE IF IsNone(outs[1].path) \/ outs[1].path = Some(<<>>) THEN Raise("HTTP500")
        ELSE Return([file_hash |-> outs[1].md5, original_filename |-> The(outs[1].path)])

s_download == <<"d", "o", "w", "n", "l", "o", "a", "d">>
s_upload_metadata == <<"u", "p", "l", "o", "a", "d", "-", "m", "e", "t", "a", "d", "a", "t", "a">>

\* variant: a record is added whether or not the hash has one
upload_metadata_rows_always_add(table, file_hash, original_filename, username) ==
    Append(table, [file_hash |-> file_hash, original_filename |-> original_filename,
                   username |-> username])

\* upload_metadata (lines 154-192): the first record of file_hash is updated
\* in place, or a record is added when the hash has none
upload_metadata_rows(table, file_hash, original_filename, username) ==
    LET same == { i \in 1..Len(table) : table[i].file_hash = file_hash }
    IN  IF same # {}
        THEN LET first == CHOOSE i \in same : \A j \in same : i <= j
             IN  [table EXCEPT ![first].original_filename = original_filename,
                               ![first].username = username]
        ELSE Append(table, [file_hash |-> file_hash,
                            original_filename |-> original_filename,
                            username |-> username])

\* upload_metadata (lines 163-172, 194-203): the first catalog record of
\* file_hash takes the declared name when its own name is a fallback
upload_metadata_rename(items, file_hash, original_filename) ==
    LET same == { i \in 1..Len(items) : items[i].hash = file_hash }
    IN  IF same = {} THEN items
        ELSE LET first == CHOOSE i \in same : \A j \in same : i <= j
                 item_name == items[first].name
             IN  IF \/ Prefix(item_name, Len(s_dvc_file_)) = s_dvc_file_
                    \/ Prefix(item_name, Len(s_dvc_dir_)) = s_dvc_dir_
                 THEN [items EXCEPT ![first].name = original_filename]
                 ELSE items

\* POST /api/data/upload-metadata up to "await dvc_file.read()" (line 128)
MetaBegin(content, username) ==
    /\ nreq < MaxReq
    /\ nreq' = nreq + 1
    /\ reqs' = reqs \cup {[ id |-> nreq + 1, method |-> "METADATA",
                             path |-> s_upload_metadata, cred |-> c_absent,
                             user |-> None, content |-> content,
                             username |-> username ]}
    /\ UNCHANGED <<cfg, universe, files, dirs, data_items, resp, put_hist, call,
                   uploaded_metadata>>

\* upload_metadata after the await (lines 129-213): nothing is awaited
\* between the query and the commit; committed tells whether db.commit()
\* succeeds. The body of the response tells which branch answered.
MetaFinish(r, committed) ==
    /\ r \in reqs /\ r.method = "METADATA"
    /\ reqs' = reqs \ {r}
    /\ LET v == parse_uploaded_dvc(r.content)
       IN  IF Raised(v)
           THEN /\ resp' = Fail(r.id, r.method, r.path, r.cred, v.exc)
                /\ UNCHANGED <<data_items, uploaded_metadata>>
           ELSE IF ~committed
           THEN /\ resp' = Fail(r.id, r.method, r.path, r.cred, "HTTP500")
                /\ UNCHANGED <<data_items, uploaded_metadata>>
           ELSE /\ uploaded_metadata' =
                      upload_metadata_rows(uploaded_metadata, v.value.file_hash,
                                           v.value.original_filename, r.username)
                /\ data_items' = upload_metadata_rename(data_items, v.value.file_hash,
                                                        v.value.original_filename)
                /\ resp' = Response(r.id, r.method, r.path, r.cred, None, None,
                       Some(IF \E i \in 1..Len(uploaded_metadata) :
                                  uploaded_metadata[i].file_hash = v.value.file_hash
                            THEN <<"updated">> ELSE <<"uploaded">>),
                       None)
    /\ UNCHANGED <<cfg, universe, files, dirs, nreq, put_hist, call>>

\* download_data_file (data.py lines 270-356) for the current user c: the
\* exception raised, or the body of the FileResponse
download_data_file_result(item_id, FS, D, items) ==
    IF item_id \notin 1..Len(items) THEN Raise("HTTP404")
    ELSE LET data_item == items[item_id]
             storage_path == get_dvc_storage_path
         IN  IF data_item.hash = <<>> THEN Raise("HTTP404")
             ELSE IF data_item.is_folder /\ EndsWith(data_item.hash, s_dotdir)
             THEN LET dir_file_path == get_dvc_file_path_from_hash(data_item.hash, storage_path)
                  IN  IF Raised(dir_file_path) THEN dir_file_path
                      ELSE IF ~path_exists(os_path_parse(dir_file_path.value), DOMAIN FS, D)
                      THEN Raise("HTTP404")
                      ELSE LET file_list == read_dir_metadata(dir_file_path.value, FS, D)
                           IN  IF Raised(file_list) THEN file_list
                               ELSE create_folder_zip(data_item.name, file_list.value,
                                                      storage_path, FS, D)
             ELSE LET dvc_file_path == get_dvc_file_path_from_hash(data_item.hash, storage_path)
                  IN  IF Raised(dvc_file_path) THEN dvc_file_path
                      ELSE LET p == os_path_parse(dvc_file_path.value)
                           IN  IF ~path_exists(p, DOMAIN FS, D) THEN Raise("HTTP404")
                               ELSE IF ~path_is_file(p, DOMAIN FS, D)
                               THEN Raise("RuntimeError")
                               ELSE Return(FS[OsLookup(p, DOMAIN FS, D).loc])

\* GET /api/data/{item_id}/download by a logged-in user (the request carries
\* no DVC header)
download_data_file(item_id, current_user) ==
    /\ nreq < MaxReq
    /\ nreq' = nreq + 1
    /\ LET v == download_data_file_result(item_id, files, dirs, data_items)
       IN  resp' = IF Raised(v)
                   THEN Fail(nreq + 1, "DOWNLOAD", s_download, c_absent, v.exc)
                   ELSE Response(nreq + 1, "DOWNLOAD", s_download, c_absent,
                                 Some(current_user), None, Some(v.value), None)
    /\ UNCHANGED <<uploaded_metadata, cfg, universe, files, dirs, data_items, reqs, put_hist, call>>

\* ------------------------------------------------------------------------
\* Administration (admin.py) and deletion of catalog records (data.py)
\* ------------------------------------------------------------------------

\* the administrator logged in to the web interface
Admins ==
    { [id |-> 2, email |-> "admin@example.com", password |-> "pw2", is_admin |-> TRUE] }

s_gc == <<"g", "c">>
s_delete == <<"d", "e", "l", "e", "t", "e">>

\* files_dir = os.path.join(storage_path, "files", "md5")
files_dir == PathJoin(DVC_STORAGE_PATH, <<s_files, s_md5>>)

RECURSIVE Concat(_)
Concat(parts) == IF Len(parts) = 0 THEN <<>> ELSE Head(parts) \o Concat(Tail(parts))

\* os.path.relpath(file_path, files_dir).replace(os.sep, '')
gc_file_hash(loc) == Concat(SubSeq(loc, Len(files_dir) + 1, Len(loc)))

\* db_hashes: the hashes of the catalog records that have one
gc_db_hashes(items) ==
    { items[i].hash : i \in { j \in 1..Len(items) : items[j].hash # <<>> } }

\* the files of directory d that the walk removes: not named *.dir, and
\* their reconstructed hash is not among db_hashes
gc_orphans(d, F, db_hashes) ==
    { l \in F : /\ Len(l) > 1 /\ Parent(l) = d
                /\ ~EndsWith(PathName(l), s_dotdir)
                /\ gc_file_hash(l) \notin db_hashes }

\* the directories below files_dir that hold no file at any depth: the
\* bottom-up walk removes them
gc_empty_dirs(F, D) ==
    { d \in D : /\ Len(d) > Len(files_dir)
                /\ SubSeq(d, 1, Len(files_dir)) = files_dir
                /\ ~\E l \in F : Len(l) > Len(d) /\ SubSeq(l, 1, Len(d)) = d }

\* garbage_collect up to the walk (lines 141-166): the storage directory is
\* looked up and the hashes of the catalog are read
GcBegin(current_admin) ==
    /\ nreq < MaxReq
    /\ nreq' = nreq + 1
    /\ IF ~current_admin.is_admin
       THEN /\ resp' = Fail(nreq + 1, "GC", s_gc, c_absent, "HTTP403")
            /\ UNCHANGED reqs
       ELSE IF ~path_exists(files_dir, DOMAIN files, dirs)
       THEN /\ resp' = Response(nreq + 1, "GC", s_gc, c_absent, Some(current_admin),
                                Some(0), None, None)
            /\ UNCHANGED reqs
       ELSE /\ reqs' = reqs \cup
                  {[ id |-> nreq + 1, method |-> "GC", path |-> s_gc, cred |-> c_absent,
                     user |-> Some(current_admin),
                     db_hashes |-> gc_db_hashes(data_items),
                     todo |-> {files_dir}, files_deleted |-> 0 ]}
            /\ UNCHANGED resp
    /\ UNCHANGED <<uploaded_metadata, cfg, universe, files, dirs, data_items, put_hist, call>>

\* os.walk reaches directory d (lines 168-189): its entries are listed, its
\* orphaned files are removed, its subdirectories are visited later
GcVisit(r, d) ==
    /\ r \in reqs /\ r.method = "GC"
    /\ d \in r.todo
    /\ LET gone == IF d \in dirs THEN gc_orphans(d, DOMAIN files, r.db_hashes) ELSE {}
           subdirs == IF d \in dirs THEN { x \in dirs : Len(x) > 1 /\ Parent(x) = d } ELSE {}
       IN  /\ files' = [l \in (DOMAIN files) \ gone |-> files[l]]
           /\ put_hist' = [q \in { x \in DOMAIN put_hist : put_hist[x].loc \notin gone } |->
                              put_hist[q]]
           /\ reqs' = { IF x.method = "GET" /\ ~IsNone(x.eloc) /\ The(x.eloc) \in gone
                        THEN [x EXCEPT !.expect = None] ELSE x : x \in reqs \ {r} }
                      \cup {[r EXCEPT !.todo = (r.todo \ {d}) \cup subdirs,
                                      !.files_deleted = r.files_deleted + Cardinality(gone)]}
    /\ UNCHANGED <<uploaded_metadata, cfg, universe, dirs, data_items, resp, nreq, call>>

\* the walk is over: empty directories are removed and the response is sent
\* (lines 191-206)
GcEnd(r) ==
    /\ r \in reqs /\ r.method = "GC"
    /\ r.todo = {}
    /\ dirs' = dirs \ gc_empty_dirs(DOMAIN files, dirs)
    /\ reqs' = reqs \ {r}
    /\ resp' = Response(r.id, "GC", s_gc, c_absent, r.user, Some(r.files_deleted),
                        None, None)
    /\ UNCHANGED <<uploaded_metadata, cfg, universe, files, data_items, nreq, put_hist, call>>

\* delete_data_item (data.py lines 467-495): the record is deleted, the
\* blob stays; item_id is the position of the record in the table
DeleteItem(item_id, current_user) ==
    /\ nreq < MaxReq
    /\ nreq' = nreq + 1
    /\ IF item_id \notin 1..Len(data_items)
       THEN /\ resp' = Fail(nreq + 1, "DELETE", s_delete, c_absent, "HTTP404")
            /\ UNCHANGED data_items
       ELSE IF data_items[item_id].user_id # current_user.id
       THEN /\ resp' = Fail(nreq + 1, "DELETE", s_delete, c_absent, "HTTP403")
            /\ UNCHANGED data_items
       ELSE /\ data_items' = SubSeq(data_items, 1, item_id - 1)
                                \o SubSeq(data_items, item_id + 1, Len(data_items))
            /\ resp' = Response(nreq + 1, "DELETE", s_delete, c_absent,
                                Some(current_user), None, None, None)
    /\ UNCHANGED <<uploaded_metadata, cfg, universe, files, dirs, reqs, put_hist, call>>

\* the routes of the router in the order of their decorators: method, path
\* pattern, endpoint
catch_all == "/{file_path:path}"

router_routes ==
    << [method |-> "GET", path |-> catch_all, endpoint |-> "get_dvc_file"],
       [method |-> "PUT", path |-> catch_all, endpoint |-> "upload_dvc_file"],
       [method |-> "POST", path |-> catch_all, endpoint |-> "post_dvc_file"],
       [method |-> "HEAD", path |-> catch_all, endpoint |-> "head_dvc_file"],
       [method |-> "GET", path |-> "/user/info", endpoint |-> "get_user_info"] >>

\* a route matches a request of its method whose path fits its pattern; the
\* path converter takes every path
route_matches(route, m, p) ==
    /\ route.method = m
    /\ \/ route.path = catch_all
       \/ route.path = "/user/info" /\ p = p_user_info

\* the endpoint of the first route that matches, "none" (404) without one
endpoint_of(m, p) ==
    LET hits == { i \in 1..Len(router_routes) : route_matches(router_routes[i], m, p) }
    IN  IF hits = {} THEN "none"
        ELSE router_routes[CHOOSE i \in hits : \A j \in hits : i <= j].endpoint

\* get_user_info (lines 416-437): the response, DVCUserInfo of the user
get_user_info(id, p, c, auth_config) ==
    LET auth == verify_dvc_auth(c.authorization, c.x_dvc_token, auth_config)
    IN  IF Raised(auth) THEN Fail(id, "GET", p, c, auth.exc)
        ELSE IF IsNone(auth.value)
        THEN [authenticated |-> FALSE, user_id |-> None, is_admin |-> None]
                @@ Response(id, "GET", p, c, auth.value, None, None, None)
        ELSE [ authenticated |-> TRUE, user_id |-> Some(The(auth.value).id),
               is_admin |-> Some(The(auth.value).is_admin) ]
                @@ Response(id, "GET", p, c, auth.value, None, None, None)

\* a GET request, served by the endpoint the router dispatches it to
Get(p, c) ==
    IF endpoint_of("GET", p) = "get_user_info"
    THEN /\ nreq < MaxReq
         /\ nreq' = nreq + 1
         /\ resp' = get_user_info(nreq + 1, p, c, cfg)
         /\ UNCHANGED <<uploaded_metadata, cfg, universe, files, dirs, data_items, reqs, put_hist, call>>
    ELSE GetBegin(p, c)

\* PUT /{file_path:path}
Put(p, c, b) == UploadBegin("PUT", p, c, b)

\* post_dvc_file (lines 339-351) awaits upload_dvc_file
Post(p, c, b) == UploadBegin("POST", p, c, b)

Next ==
    \/ \E p \in Paths(universe), c \in Creds(universe), b \in BodiesOf(universe) : Put(p, c, b)
    \/ \E p \in Paths(universe), c \in Creds(universe), b \in BodiesOf(universe) : Post(p, c, b)
    \/ \E r \in {x \in reqs : x.method \in Uploads} :
          \E k \in 0..Len(r.content) :
             \E committed \in (IF k = Len(r.content) /\ ~IsNone(r.user)
                                THEN BOOLEAN ELSE {TRUE}) :
                UploadFinish(r, k, committed)
    \/ \E p \in Paths(universe), c \in Creds(universe) : HeadRequest(p, c)
    \/ \E p \in Paths(universe), c \in Creds(universe) : Get(p, c)
    \/ \E r \in {x \in reqs : x.method = "GET"} : GetChunk(r)

\* the gateway serving hash paths to a database user
Init ==
    /\ cfg = cfg_default
    /\ universe = "hash paths"
    /\ InitStore

Spec == Init /\ [][Next]_vars

\* the gateway under every authentication configuration
InitAuth ==
    /\ cfg \in AuthConfigs
    /\ universe = "credentials"
    /\ InitStore

SpecAuth == InitAuth /\ [][Next]_vars

\* the gateway serving uploads of distinct hashes of one shard
InitDistinct ==
    /\ cfg = cfg_default
    /\ universe = "distinct hashes"
    /\ InitStore

SpecDistinct == InitDistinct /\ [][Next]_vars

\* the stores the upload workflow may have left: beside the blob location of
\* files/md5/ab/cd012345, a .dir manifest, a .dvc manifest, both or none
BlobPath == get_file_path_from_hash(h_ab \o h_long).value

SidecarStores ==
    { [l \in S |-> IF l = Sibling(BlobPath, s_dotdir) THEN pair[1] ELSE pair[2]] :
         S \in SUBSET {Sibling(BlobPath, s_dotdir), Sibling(BlobPath, s_dotdvc)},
         pair \in SidecarDocs \X SidecarDocs }

\* the gateway serving an upload beside manifests
InitSidecars ==
    /\ cfg = cfg_default
    /\ universe = "sidecars"
    /\ files \in SidecarStores
    /\ dirs = InitDirs \cup (IF DOMAIN files = {} THEN {} ELSE Ancestors(Parent(BlobPath)))
    /\ data_items = <<>>
    /\ reqs = {}
    /\ resp = NoResp
    /\ nreq = 0
    /\ uploaded_metadata = <<>>
    /\ put_hist = NoFiles
    /\ call = NoCall

SpecSidecars == InitSidecars /\ [][Next]_vars

\* the gateway serving a directory manifest whose member blob has been
\* uploaded to files/md5/ef/cd before
MemberPath == get_file_path_from_hash(h_ef \o h_cd).value

InitDirManifest ==
    /\ cfg = cfg_default
    /\ universe = "directory manifest"
    /\ files = (MemberPath :> Blob1)
    /\ dirs = InitDirs \cup Ancestors(Parent(MemberPath))
    /\ data_items =
          <<The(handle_dvc_upload_data_item_creation(
                    p_md5_ef_cd, MemberPath, CHOOSE u \in Users : TRUE, files, dirs))>>
    /\ reqs = {}
    /\ resp = NoResp
    /\ nreq = 0
    /\ uploaded_metadata = <<>>
    /\ put_hist = (p_md5_ef_cd :> [body |-> Blob1, loc |-> MemberPath])
    /\ call = NoCall

SpecDirManifest == InitDirManifest /\ [][Next]_vars

\* the gateway serving paths that are not hash paths, and paths with ".."
InitLiteral ==
    /\ cfg = cfg_default
    /\ universe = "literal paths"
    /\ InitStore

SpecLiteral == InitLiteral /\ [][Next]_vars

\* the gateway serving the identity route beside a hash path
InitRoutes ==
    /\ cfg = cfg_default
    /\ universe = "routes"
    /\ InitStore

SpecRoutes == InitRoutes /\ [][Next]_vars

\* requests for one hash in both namespaces and with both splits
InitAlias ==
    /\ cfg = cfg_default
    /\ universe = "aliases"
    /\ InitStore

SpecAlias == InitAlias /\ [][Next]_vars

\* the gateway while an administrator runs garbage collections
NextGc ==
    \/ Next
    \/ \E a \in Admins : GcBegin(a)
    \/ \E r \in {x \in reqs : x.method = "GC"} : \E d \in r.todo : GcVisit(r, d)
    \/ \E r \in {x \in reqs : x.method = "GC"} : GcEnd(r)

InitGc ==
    /\ cfg = cfg_default
    /\ universe = "garbage collection"
    /\ InitStore

SpecGc == InitGc /\ [][NextGc]_vars

\* ------------------------------------------------------------------------
\* Direct calls of the path functions (as the tests of src/test call them)
\* ------------------------------------------------------------------------

\* bound: segments of a path handed to a path function
MaxSegs == 5

Segments == {s_files, s_md5, s_sha256, <<"a">>, h_cd \o s_dotdir, <<>>}

RECURSIVE SegLists(_)
SegLists(n) ==
    IF n = 0 THEN {<<>>}
    ELSE {<<>>} \cup { <<x>> \o l : x \in Segments, l \in SegLists(n - 1) }

\* the paths of 1 to MaxSegs segments
FnPaths == { Join(l) : l \in SegLists(MaxSegs) \ {<<>>} }

\* the hashes of two segments, and the hash of the tests
h_test == <<"4", "7", "3", "e", "e", "e", "9", "6">>
FnHashes == { x \o y : x, y \in Segments } \cup {h_test, h_ab \o h_cd}

p_test == Join(<<s_files, s_md5, <<"4", "7">>, <<"3", "e", "e", "e", "9", "6">>>>)

FnInputs ==
    FnPaths \cup FnHashes
       \cup {p_test, p_md5_ab_cd, p_sha256_ab_cd, p_md5_ab_cd_dir, p_md5_abc_d,
             p_md5_ab, p_regular_file, p_user_info, p_md5_ef_cd,
             Join(<<s_files, s_sha1, h_ab, h_cd>>)}

Called(fn, x, result) ==
    /\ call.fn = "input"
    /\ call.arg = x
    /\ call' = [fn |-> fn, arg |-> x, result |-> result]
    /\ UNCHANGED <<uploaded_metadata, cfg, universe, files, dirs, data_items, reqs, resp, nreq, put_hist>>

CallIsDvcHashPath(p) == Called("is_dvc_hash_path", p, is_dvc_hash_path(p))

CallExtractHash(p) == Called("extract_hash_from_path", p, extract_hash_from_path(p))

CallGetFilePath(h) == Called("get_file_path_from_hash", h, get_file_path_from_hash(h))

NextFn ==
    \/ CallIsDvcHashPath(call.arg)
    \/ CallExtractHash(call.arg)
    \/ CallGetFilePath(call.arg)

InitFn ==
    /\ cfg = cfg_default
    /\ universe = "calls"
    /\ files = NoFiles
    /\ dirs = InitDirs
    /\ data_items = <<>>
    /\ reqs = {}
    /\ resp = NoResp
    /\ nreq = 0
    /\ uploaded_metadata = <<>>
    /\ put_hist = NoFiles
    /\ call \in { [fn |-> "input", arg |-> x] : x \in FnInputs }

SpecFn == InitFn /\ [][NextFn]_vars

\* ------------------------------------------------------------------------
\* Folder archives: create_folder_zip called on a file list, and the download
\* of a folder item whose .dir file holds that list
\* ------------------------------------------------------------------------

\* bound: members of a directory manifest
MaxMembers == 3

\* members: hash, relative path; the blob of each, when stored
ZipMembers ==
    { J_member(h_ef \o h_cd, s_s_x),
      J_member(h_ab \o <<"c", "e">>, <<"y">>),
      J_member(h_ef \o <<"c", "e">>, <<"s", "/", "z">>) }

MemberBlob(m) ==
    IF m.md5 = h_ef \o h_cd THEN <<B(1)>>
    ELSE IF m.md5 = h_ab \o <<"c", "e">> THEN <<B(2)>>
    ELSE <<B(3)>>

RECURSIVE FileLists(_)
FileLists(n) ==
    IF n = 0 THEN {<<>>}
    ELSE {<<>>} \cup { <<m>> \o l : m \in ZipMembers, l \in FileLists(n - 1) }

\* the .dir file of the folder item
DirFilePath == get_file_path_from_hash(h_ab \o h_cd \o s_dotdir).value

\* the store that holds the .dir file of file_list and the blobs of stored
ZipStore(file_list, stored) ==
    (DirFilePath :> (<<J_open>> \o file_list \o <<J_close>>))
       @@ [ l \in { get_file_path_from_hash(m.md5).value : m \in stored } |->
              MemberBlob(CHOOSE m \in stored : get_file_path_from_hash(m.md5).value = l) ]

FolderItem ==
    create_data_item_from_dvc_upload(p_md5_ab_cd_dir, h_ab \o h_cd \o s_dotdir,
        CHOOSE u \in Users : TRUE, TRUE, None, None, None)

CallCreateFolderZip(file_list) ==
    Called("create_folder_zip", file_list,
           create_folder_zip(FolderItem.name, file_list, get_dvc_storage_path, files, dirs))

NextZip ==
    \/ CallCreateFolderZip(call.arg)
    \/ \E i \in 1..(Len(data_items) + 1), u \in Users : download_data_file(i, u)

InitZip ==
    /\ cfg = cfg_default
    /\ universe = "archives"
    /\ \E file_list \in FileLists(MaxMembers), stored \in SUBSET ZipMembers :
          /\ call = [fn |-> "input", arg |-> file_list]
          /\ files = ZipStore(file_list, stored)
    /\ dirs = InitDirs \cup UNION { Ancestors(Parent(l)) : l \in DOMAIN files }
    /\ data_items = <<FolderItem>>
    /\ reqs = {}
    /\ resp = NoResp
    /\ nreq = 0
    /\ uploaded_metadata = <<>>
    /\ put_hist = NoFiles

SpecZip == InitZip /\ [][NextZip]_vars

\* the record that the upload of member m by an identified user leaves
MemberItem(m) ==
    create_data_item_from_dvc_upload(
        Join(<<s_files, s_md5, Prefix(m.md5, 2), Suffix(m.md5, 2)>>), m.md5,
        CHOOSE u \in Users : TRUE, FALSE, Some(Len(MemberBlob(m))), Some(1), None)

RECURSIVE MemberItems(_)
MemberItems(file_list) ==
    IF Len(file_list) = 0 THEN <<>>
    ELSE LET rest == MemberItems(Tail(file_list))
         IN  IF \E k \in 1..Len(rest) : rest[k].hash = Head(file_list).md5
             THEN rest ELSE <<MemberItem(Head(file_list))>> \o rest

\* a pushed directory: the .dir file, the blobs of all its members and the
\* records of all these uploads; users delete records, the administrator
\* collects garbage
InitGcDir ==
    /\ cfg = cfg_default
    /\ universe = "archives"
    /\ \E file_list \in FileLists(MaxMembers) :
          /\ call = [fn |-> "input", arg |-> file_list]
          /\ files = ZipStore(file_list, { file_list[k] : k \in 1..Len(file_list) })
          /\ data_items = <<FolderItem>> \o MemberItems(file_list)
    /\ dirs = InitDirs \cup UNION { Ancestors(Parent(l)) : l \in DOMAIN files }
    /\ reqs = {}
    /\ resp = NoResp
    /\ nreq = 0
    /\ uploaded_metadata = <<>>
    /\ put_hist = NoFiles

NextGcDir ==
    \/ \E i \in 1..(Len(data_items) + 1), u \in Users \cup Admins : DeleteItem(i, u)
    \/ \E a \in Admins : GcBegin(a)
    \/ \E r \in {x \in reqs : x.method = "GC"} : \E d \in r.todo : GcVisit(r, d)
    \/ \E r \in {x \in reqs : x.method = "GC"} : GcEnd(r)

SpecGcDir == InitGcDir /\ [][NextGcDir]_vars

\* member objects that lack a field
BadMembers ==
    { J_member(Missing, <<"y">>), J_member(h_ef \o h_cd, Missing) }

GoodMembers ==
    { J_member(h_ef \o h_cd, s_s_x), J_member(h_ab \o <<"c", "e">>, <<"y">>) }

RECURSIVE MemberLists(_)
MemberLists(n) ==
    IF n = 0 THEN {<<>>}
    ELSE {<<>>} \cup { <<m>> \o l : m \in GoodMembers \cup BadMembers,
                                    l \in MemberLists(n - 1) }

\* the folder item's .dir file holds a member list, complete or cut off
\* before its closing bracket; the blobs of all members are stored
InitBadManifest ==
    /\ cfg = cfg_default
    /\ universe = "archives"
    /\ \E file_list \in MemberLists(MaxMembers), closed \in BOOLEAN :
          /\ call = [fn |-> "input", arg |-> file_list]
          /\ files = ((DirFilePath :>
                         (<<J_open>> \o file_list \o (IF closed THEN <<J_close>> ELSE <<>>)))
                      @@ ZipStore(file_list, GoodMembers))
    /\ dirs = InitDirs \cup UNION { Ancestors(Parent(l)) : l \in DOMAIN files }
    /\ data_items = <<FolderItem>>
    /\ reqs = {}
    /\ resp = NoResp
    /\ nreq = 0
    /\ uploaded_metadata = <<>>
    /\ put_hist = NoFiles

SpecBadManifest == InitBadManifest /\ [][NextZip]_vars

\* ------------------------------------------------------------------------
\* File manifests: the .dvc text beside an uploaded blob, the catalog record
\* made from it, the .dvc text generated from the record, and its reading
\* ------------------------------------------------------------------------
s_a_csv == <<"a", ".", "c", "s", "v">>

\* file manifests: hash, size, original name (optional)
FileManifests ==
    { [contentHash |-> h, logicalSize |-> n, originalName |-> nm] :
         h \in {h_ab \o h_cd, h_ab \o h_long, h_test},
         n \in {0, 7, 9},
         nm \in {None, Some(s_n_txt), Some(s_a_csv)} }

\* the .dvc text of a manifest, as the upload workflow writes it
DvcTextOf(m) ==
    <<Y_outs, Y_out_hash(m.contentHash, Some(m.logicalSize), m.originalName, None)>>

HashPathOf(h) == Join(<<s_files, s_md5, Prefix(h, 2), Suffix(h, 2)>>)

TmpDvc == <<s_root, <<"t", "m", "p">>, <<"t">> \o s_dotdvc>>

\* what the code reads from a .dvc text: the hash as upload_metadata takes
\* it, the size as extract_metadata_from_dvc_file, the name as
\* extract_original_filename_from_dvc_file
ReadDvcText(content) ==
    LET FS == (TmpDvc :> content)
        D == Ancestors(Parent(TmpDvc))
        parsed == parse_uploaded_dvc(content)
    IN  [ contentHash |-> IF Raised(parsed) THEN None ELSE Some(parsed.value.file_hash),
          logicalSize |-> extract_metadata_from_dvc_file(TmpDvc, FS, D).file_size,
          originalName |-> extract_original_filename_from_dvc_file(TmpDvc, FS, D) ]

\* the blob of manifest call.arg is uploaded beside its .dvc text and recorded
RecordManifest ==
    /\ call.fn = "input"
    /\ LET m == call.arg
           full_path == get_file_path_from_hash(m.contentHash).value
       IN  /\ files' = (full_path :> Blob1) @@ (Sibling(full_path, s_dotdvc) :> DvcTextOf(m))
           /\ dirs' = dirs \cup Ancestors(Parent(full_path))
           /\ data_items' =
                 <<The(handle_dvc_upload_data_item_creation(
                           HashPathOf(m.contentHash), full_path,
                           CHOOSE u \in Users : TRUE, files', dirs'))>>
           /\ call' = [fn |-> "recorded", arg |-> m]
    /\ UNCHANGED <<uploaded_metadata, cfg, universe, reqs, resp, nreq, put_hist>>

\* GET /api/data/1/dvc-content
CallGetDvcContent ==
    /\ call.fn = "recorded"
    /\ call' = [fn |-> "get_dvc_content", arg |-> call.arg,
                result |-> get_dvc_content(1, data_items)]
    /\ UNCHANGED <<uploaded_metadata, cfg, universe, files, dirs, data_items, reqs, resp, nreq, put_hist>>

\* the generated text is read back
CallReadDvcText ==
    /\ call.fn = "get_dvc_content"
    /\ ~Raised(call.result)
    /\ call' = [fn |-> "read", arg |-> call.arg, result |-> ReadDvcText(call.result.value)]
    /\ UNCHANGED <<uploaded_metadata, cfg, universe, files, dirs, data_items, reqs, resp, nreq, put_hist>>

NextManifest ==
    \/ RecordManifest
    \/ CallGetDvcContent
    \/ CallReadDvcText

InitManifest ==
    /\ cfg = cfg_default
    /\ universe = "file manifests"
    /\ files = NoFiles
    /\ dirs = InitDirs
    /\ data_items = <<>>
    /\ reqs = {}
    /\ resp = NoResp
    /\ nreq = 0
    /\ uploaded_metadata = <<>>
    /\ put_hist = NoFiles
    /\ call \in { [fn |-> "input", arg |-> m] : m \in FileManifests }

SpecManifest == InitManifest /\ [][NextManifest]_vars

\* the .dvc texts clients send to upload-metadata: two hashes, with two
\* names or none, and a text cut off after its first key
MetaDocs ==
    { DvcTextOf([contentHash |-> h, logicalSize |-> 7, originalName |-> nm]) :
         h \in {h_ab \o h_cd, h_ab \o h_long},
         nm \in {None, Some(s_n_txt), Some(s_a_csv)} }
      \cup {yaml_cut}

MetaUsernames == {None, Some(<<"u">>)}

\* the catalog before: empty, or the record of blob abcd under its fallback
\* name or under a declared name
MetaCatalogs ==
    { <<>> } \cup
    { <<create_data_item_from_dvc_upload(p_md5_ab_cd, h_ab \o h_cd,
            CHOOSE u \in Users : TRUE, FALSE, Some(7), Some(1), nm)>> :
         nm \in {None, Some(s_n_txt)} }

InitMeta ==
    /\ cfg = cfg_default
    /\ universe = "metadata"
    /\ files = NoFiles
    /\ dirs = InitDirs
    /\ data_items \in MetaCatalogs
    /\ reqs = {}
    /\ resp = NoResp
    /\ nreq = 0
    /\ uploaded_metadata = <<>>
    /\ put_hist = NoFiles
    /\ call = NoCall

NextMeta ==
    \/ \E content \in MetaDocs, username \in MetaUsernames : MetaBegin(content, username)
    \/ \E r \in {x \in reqs : x.method = "METADATA"}, committed \in BOOLEAN :
          MetaFinish(r, committed)

SpecMeta == InitMeta /\ [][NextMeta]_vars

\* ------------------------------------------------------------------------
\* Claims
\* ------------------------------------------------------------------------

\* the path is hash-addressed as the specification words it: three
\* separators, and the path starts with files/md5/ or files/sha256/
HashAddressed(p) ==
    /\ Cardinality({i \in 1..Len(p) : p[i] = SEP}) = 3
    /\ \/ Prefix(p, 10) = s_files \o <<SEP>> \o s_md5 \o <<SEP>>
       \/ Prefix(p, 13) = s_files \o <<SEP>> \o s_sha256 \o <<SEP>>

\* segment i of a path, counted from 0
Segment(p, i) == Split(p)[i + 1]

\* C1: the content at a blob's final path is absent or the complete body of
\* one PUT, in every reachable state (also after a PUT aborted by an I/O
\* error), and a GET never delivers a truncated or partly written file.
C1_NoPartialBlob ==
    /\ \A loc \in DOMAIN files : files[loc] \in BodiesOf(universe)
    /\ (resp.id # 0 /\ resp.method = "GET" /\ resp.status = 200)
          => The(resp.body) \in BodiesOf(universe)

AnonymousAllowed(cf) == ~cf.enabled \/ cf.method = "none"

CredentialsAccepted(c, cf) ==
    IF cf.method = "database"
    THEN \E u \in Users :
            /\ c.authorization = Basic(u.email, u.password)
            /\ cf.require_admin => u.is_admin
    ELSE IF cf.method = "basic"
    THEN c.authorization = Basic(basic_username, basic_password)
    ELSE IF cf.method = "custom"
    THEN c.x_dvc_token = Some(custom_token)
    ELSE FALSE

\* C2: under every authentication method, a request with absent or wrong
\* credentials is answered 401 when anonymous access is not enabled, and
\* never gets as far as blob I/O or a catalog record.
C2_Unauthenticated401 ==
    /\ (resp.id # 0 /\ ~AnonymousAllowed(cfg) /\ ~CredentialsAccepted(resp.cred, cfg))
          => resp.status = 401
    /\ \A r \in reqs : AnonymousAllowed(cfg) \/ CredentialsAccepted(r.cred, cfg)

\* C3: blobs are create-if-absent: no step changes or removes the content of
\* a blob that is stored completely.
C3_CreateIfAbsent ==
    [][\A loc \in DOMAIN files :
          files[loc] \in BodiesOf(universe)
             => (loc \in DOMAIN files' /\ files'[loc] = files[loc])]_vars

\* C4: a request to files/<algo>/<p>/<s> with a hash of at least 2
\* characters is stored and looked up at
\* storage_root/files/<algo>/<h[:2]>/<h[2:]>, for sha256 as for md5.
C4_ResolveKeepsNamespace ==
    \A r \in reqs :
       HashAddressed(r.path) =>
          LET h == Segment(r.path, 2) \o Segment(r.path, 3)
          IN  Len(h) >= 2 =>
                 r.full_path = PathJoin(DVC_STORAGE_PATH,
                                  <<s_files, Segment(r.path, 1), Prefix(h, 2), Suffix(h, 2)>>)

\* C5: get_file_path_from_hash(h) of a hash of at least 2 characters is
\* storage_root/files/<h[:2]>/<h[2:]>, the shard directly below files/.
C5_ShardBelowFiles ==
    (call.fn = "get_file_path_from_hash" /\ Len(call.arg) >= 2)
       => call.result = Return(PathJoin(DVC_STORAGE_PATH,
                                  <<s_files, Prefix(call.arg, 2), Suffix(call.arg, 2)>>))

ShortHashPath(p) ==
    HashAddressed(p) /\ Len(Segment(p, 2) \o Segment(p, 3)) < 2

\* C6: a HEAD, GET or PUT whose hash-addressed path yields a hash of length
\* 0 or 1 is answered at once with a 400-class error, and the blob store and
\* the catalog are left as they were.
C6_ShortHashRejected ==
    [][/\ \A r \in reqs' : ~ShortHashPath(r.path)
       /\ (resp'.id # resp.id /\ ShortHashPath(resp'.path))
             => /\ resp'.status \in 400..499
                /\ UNCHANGED <<files, dirs, data_items>>]_vars

C6_Witness ==
    /\ resp.id # 0
    /\ resp.method = "PUT"
    /\ resp.path = p_md5_a_empty
    /\ resp.exc = "HTTP400"

\* C7: is_dvc_hash_path(path) is true exactly for the paths of 4 segments
\* whose segment 0 is "files" and whose segment 1 is md5 or sha256.
C7_HashPathIffFourSegments ==
    call.fn = "is_dvc_hash_path" =>
       /\ call.result = HashAddressed(call.arg)
       /\ call.arg \in {p_test, p_sha256_ab_cd} => call.result = TRUE
       /\ call.arg \in {p_md5_ab, p_regular_file} => call.result = FALSE
       /\ Len(Split(call.arg)) >= 5 => call.result = FALSE

C7_Witness ==
    /\ call.fn = "is_dvc_hash_path"
    /\ call.arg = p_sha256_ab_cd
    /\ call.result = TRUE

\* C8: extract_hash_from_path fails on every path that is not hash-addressed
\* and returns segment 2 followed by segment 3 on every path that is.
C8_ExtractFailsOnMalformed ==
    call.fn = "extract_hash_from_path" =>
       IF HashAddressed(call.arg)
       THEN call.result = Return(Segment(call.arg, 2) \o Segment(call.arg, 3))
       ELSE Raised(call.result)

\* C9: after an upload of body b to a path has succeeded and until another
\* upload writes at the same location, the location holds b, HEAD of the
\* path answers 200 with size len(b) and GET of the path delivers b.
C9_ReadYourWrites ==
    /\ \A p \in DOMAIN put_hist :
          /\ put_hist[p].loc \in DOMAIN files
          /\ files[put_hist[p].loc] = put_hist[p].body
    /\ (resp.id # 0 /\ resp.method = "HEAD" /\ ~IsNone(resp.expect))
          => resp.status = 200 /\ resp.size = Some(Len(The(resp.expect)))
    /\ (resp.id # 0 /\ resp.method = "GET" /\ ~IsNone(resp.expect))
          => resp.status = 200 /\ resp.body = resp.expect

C9_Witness ==
    /\ resp.id # 0
    /\ resp.method = "GET"
    /\ resp.expect = Some(Body1)
    /\ resp.body = Some(Body1)

\* C10: an upload to a location that already holds exactly the uploaded
\* bytes, when its write is not cut by an I/O error, answers success and
\* leaves the stored files as they were: one blob, same content.
C10_PutIdempotent ==
    [][\A r \in reqs :
          ( /\ r.method \in Uploads
            /\ resp'.id = r.id
            /\ resp'.exc # "IOError"
            /\ path_is_file(r.full_path, DOMAIN files, dirs)
            /\ files[OsLookup(r.full_path, DOMAIN files, dirs).loc] = r.content )
          => (resp'.status = 200 /\ files' = files)]_vars

C10_Witness ==
    /\ resp.id = 2
    /\ resp.method = "PUT"
    /\ resp.status = 200
    /\ resp.expect = Some(Body1)
    /\ resp.path \in DOMAIN put_hist
    /\ put_hist[resp.path].body = Body1

MembersOf(manifest) == SubSeq(manifest, 2, Len(manifest) - 1)

MemberStored(m) ==
    PathJoin(DVC_STORAGE_PATH, <<s_files, s_md5, Prefix(m.md5, 2), Suffix(m.md5, 2)>>)
       \in DOMAIN files

\* the archive of the stored members of a manifest: one entry per member
\* whose blob exists, named by its relative path
ArchiveOf(manifest) ==
    LET present == SelectSeq(MembersOf(manifest), MemberStored)
    IN  [ i \in 1..Len(present) |->
            Z_entry(present[i].relpath,
                    files[PathJoin(DVC_STORAGE_PATH,
                             <<s_files, s_md5, Prefix(present[i].md5, 2),
                               Suffix(present[i].md5, 2)>>)]) ]

\* C12: a GET of a hash-addressed path with the .dir suffix answers with the
\* archive of the members of the stored directory manifest; a GET of a path
\* without the suffix answers with the stored bytes.
C12_DirGetIsArchive ==
    ( /\ resp.id # 0 /\ resp.method = "GET" /\ resp.status = 200
      /\ HashAddressed(resp.path) /\ ~IsNone(resp.expect) )
       => IF EndsWith(resp.path, s_dotdir)
          THEN resp.body = Some(ArchiveOf(The(resp.expect)))
          ELSE resp.body = resp.expect

\* the members of a file list whose blob is stored
StoredMembers(file_list) == SelectSeq(file_list, MemberStored)

\* C13: create_folder_zip on a manifest of which some but not all member
\* blobs are missing succeeds, and the archive holds exactly the members whose
\* blob exists, in order, each under its relative path with its blob's
\* content.
C13_PartialArchive ==
    ( /\ call.fn = "create_folder_zip"
      /\ Len(StoredMembers(call.arg)) \in 1..(Len(call.arg) - 1) )
       => call.result =
             Return([ i \in 1..Len(StoredMembers(call.arg)) |->
                        Z_entry(StoredMembers(call.arg)[i].relpath,
                                MemberBlob(StoredMembers(call.arg)[i])) ])

\* three members, the second one missing
C13_Witness ==
    /\ call.fn = "create_folder_zip"
    /\ Len(call.arg) = 3
    /\ MemberStored(call.arg[1]) /\ ~MemberStored(call.arg[2]) /\ MemberStored(call.arg[3])
    /\ call.arg[1] # call.arg[3]
    /\ ~Raised(call.result)
    /\ Len(call.result.value) = 2

\* C14: when no member of the manifest resolves to a stored blob (also when
\* the manifest has no member), create_folder_zip fails and the download
\* returns no archive.
C14_EmptyArchiveFails ==
    /\ (call.fn = "create_folder_zip" /\ Len(StoredMembers(call.arg)) = 0)
          => Raised(call.result)
    /\ (resp.id # 0 /\ resp.method = "DOWNLOAD" /\ Len(StoredMembers(call.arg)) = 0)
          => resp.status # 200

\* a request path that is relative and has no ".." segment
HasDotDot(p) == \E i \in 1..Len(Split(p)) : Split(p)[i] = s_dotdot

LiteralPath(p) ==
    /\ ~is_dvc_hash_path(p)
    /\ ~(Len(p) > 0 /\ p[1] = SEP)
    /\ ~HasDotDot(p)

\* the location of a literal path under the caller's root
LiteralLocation(p, email) ==
    PathJoin(IF IsNone(email) THEN DVC_STORAGE_PATH
             ELSE get_user_storage_path(The(email)), Split(p))

\* C15: a request of an authorized caller for a literal path (not a hash
\* path, relative, no ".." segment) is not rejected: an upload answers 200
\* unless the write itself failed, and after a 200 the body is stored at that
\* relative path under the caller's root; a HEAD or GET of a path uploaded
\* before finds the file (never 400, never 404).
C15_LiteralPathAccepted ==
    (resp.id # 0 /\ LiteralPath(resp.path) /\ resp.exc # "HTTP401") =>
       /\ resp.status # 400
       /\ (resp.method \in Uploads /\ resp.status = 200) =>
             LET loc == LiteralLocation(resp.path, resp.user_email)
             IN  loc \in DOMAIN files /\ resp.path \in DOMAIN put_hist
       /\ (resp.method \in {"HEAD", "GET"} /\ resp.path \in DOMAIN put_hist) =>
             resp.status = 200

\* a location inside the storage root
InsideStorage(loc) ==
    /\ Len(loc) >= Len(DVC_STORAGE_PATH)
    /\ SubSeq(loc, 1, Len(DVC_STORAGE_PATH)) = DVC_STORAGE_PATH

\* C16: a request whose path has a ".." segment is answered 400 (an
\* unauthorized one 401) and never reaches the filesystem: it is never
\* suspended in a handler past path resolution; and every file and directory
\* the handlers create lies inside the storage root.
C16_TraversalRejected ==
    /\ (resp.id # 0 /\ HasDotDot(resp.path)) => resp.status \in {400, 401}
    /\ \A r \in reqs : ~HasDotDot(r.path)
    /\ \A loc \in DOMAIN files : InsideStorage(loc)
    /\ \A d \in dirs \ InitDirs : InsideStorage(d)

\* the write of upload r has completed in this step: its body is recorded as
\* the last complete upload of its path
WriteSucceeded(r) ==
    /\ r.method \in Uploads
    /\ resp'.id = r.id
    /\ r.path \in DOMAIN put_hist'
    /\ put_hist'[r.path].body = r.content

DirManifest == Sibling(BlobPath, s_dotdir)
DvcManifest == Sibling(BlobPath, s_dotdvc)

\* a manifest that has a first output entry, and that entry
HasFirstOut(doc) == Len(doc) >= 2 /\ doc[1].tok = "outs:" /\ doc[2].tok = "out"
FirstOut(doc) == doc[2]

\* size and count as a manifest with a first output declares them
SizeAndCountFrom(it, doc) ==
    HasFirstOut(doc) =>
       /\ it.file_size = FirstOut(doc).size
       /\ it.file_count = IF IsNone(FirstOut(doc).nfiles) THEN Some(1)
                          ELSE FirstOut(doc).nfiles

FileNameOf(s) == Split(s)[Len(Split(s))]

\* the manifest recordUpload reads: .dir before .dvc
ChosenManifest ==
    IF DirManifest \in DOMAIN files THEN Some(files[DirManifest])
    ELSE IF DvcManifest \in DOMAIN files THEN Some(files[DvcManifest])
    ELSE None

DeclaresName(m) ==
    /\ ~IsNone(m)
    /\ HasFirstOut(The(m))
    /\ ~IsNone(FirstOut(The(m)).path)

\* C19: the name of every catalog record is the file-name component of the
\* path the chosen manifest declares; when no manifest declares one it is
\* dvc_dir_ or dvc_file_ followed by the first 8 characters of the hash.
C19_DisplayName ==
    \A i \in 1..Len(data_items) :
       LET it == data_items[i]
       IN  IF DeclaresName(ChosenManifest)
           THEN it.name = FileNameOf(The(FirstOut(The(ChosenManifest)).path))
           ELSE /\ Len(it.hash) > 8
                /\ it.name = (IF it.is_folder THEN s_dvc_dir_ ELSE s_dvc_file_)
                                 \o SubSeq(it.hash, 1, 8)

\* a record made beside a .dvc manifest that declares the path d/n.txt is
\* named n.txt
C19_Witness ==
    /\ Len(data_items) >= 1
    /\ DirManifest \notin DOMAIN files
    /\ DvcManifest \in DOMAIN files /\ files[DvcManifest] = yaml_a
    /\ data_items[1].name = s_n_txt
    /\ data_items[1].hash = h_ab \o h_long

\* C20: an authorized GET of user/info is answered by get_user_info: status
\* 200 with the authenticated flag, the user's id, email and admin flag; it is
\* never resolved as the path of a blob (answered 400 or 404, or streamed).
C20_UserInfoDispatched ==
    /\ (resp.id # 0 /\ resp.method = "GET" /\ resp.path = p_user_info
           /\ resp.exc # "HTTP401") =>
          /\ resp.status = 200
          /\ "authenticated" \in DOMAIN resp
          /\ resp.authenticated
          /\ \E u \in Users :
                /\ resp.user_id = Some(u.id)
                /\ resp.user_email = Some(u.email)
                /\ resp.is_admin = Some(u.is_admin)
    /\ \A r \in reqs : ~(r.method = "GET" /\ r.path = p_user_info)

\* the storage location the layout gives a well-formed hash path
\* files/md5/<2 characters>/<rest>
BlobLocation(p) ==
    PathJoin(DVC_STORAGE_PATH, <<s_files, s_md5, Segment(p, 2), Segment(p, 3)>>)

WellFormedHashPath(p) ==
    /\ HashAddressed(p)
    /\ Len(Segment(p, 2)) = 2
    /\ Len(Segment(p, 3)) >= 1
    /\ Segment(p, 2) # s_dotdot /\ Segment(p, 3) # s_dotdot

\* C21: a HEAD or GET of a well-formed hash path that is not refused for its
\* credentials, sent while no file lies at the blob's location, is answered
\* 404, for an identified caller and for an anonymous one.
C21_AbsentBlob404 ==
    [][(/\ resp'.id = nreq' /\ nreq' = nreq + 1
        /\ resp'.method \in {"HEAD", "GET"}
        /\ resp'.exc # "HTTP401"
        /\ WellFormedHashPath(resp'.path)
        /\ BlobLocation(resp'.path) \notin DOMAIN files)
          => resp'.status = 404]_vars

\* an anonymous GET of the absent blob was answered 404 where anonymous
\* access is configured
C21_Witness ==
    /\ resp.id # 0
    /\ resp.method = "GET"
    /\ resp.cred = c_absent
    /\ cfg.method = "none"
    /\ resp.path = p_md5_ab_cd
    /\ DOMAIN files = {}
    /\ resp.status = 404

\* a step of a HEAD or GET: no upload starts, ends or answers in it
PendingUploads(rs) == {r \in rs : r.method \in Uploads}

ReadStep ==
    /\ PendingUploads(reqs') = PendingUploads(reqs)
    /\ \/ resp' # resp /\ resp'.method \in {"HEAD", "GET"}
       \/ resp' = resp /\ reqs' # reqs

\* C22: a step of a HEAD or a GET, whatever it answers (200, 400, 401 or
\* 404), changes no stored file, creates no file and no directory, and leaves
\* the catalog as it is.
C22_ReadsAreReadOnly ==
    [][ReadStep => (files' = files /\ dirs' = dirs /\ data_items' = data_items)]_vars

\* a GET has delivered a stored blob that has a catalog record
C22_Witness ==
    /\ resp.id = 2
    /\ resp.method = "GET"
    /\ resp.status = 200
    /\ resp.body = Some(Body1)
    /\ Len(data_items) = 1
    /\ DOMAIN files = {BlobLocation(p_md5_ab_cd)}

\* a member list in which an object lacks md5 or relpath
LacksField(file_list) ==
    \E i \in 1..Len(file_list) :
       file_list[i].md5 = Missing \/ file_list[i].relpath = Missing

\* the text of the folder item's manifest is no JSON array, or a member of it
\* lacks a field
MalformedManifest ==
    LET doc == files[DirFilePath]
    IN  \/ doc[Len(doc)].tok # "]"
        \/ LacksField(call.arg)

\* C23: when a member of the directory manifest lacks md5 or relpath, or the
\* manifest is no valid JSON, the folder download answers with an error and
\* delivers no archive, and create_folder_zip returns none for such a list.
C23_AllOrNothingDecode ==
    /\ (call.fn = "create_folder_zip" /\ LacksField(call.arg)) => Raised(call.result)
    /\ (resp.id # 0 /\ resp.method = "DOWNLOAD" /\ MalformedManifest)
          => (resp.status >= 400 /\ IsNone(resp.body))

\* the download of a manifest whose first member is well-formed and stored
\* and whose second member lacks a field was answered 500
C23_Witness ==
    /\ resp.id # 0 /\ resp.method = "DOWNLOAD"
    /\ call.fn = "input" /\ Len(call.arg) >= 2
    /\ call.arg[1] \in GoodMembers
    /\ call.arg[2] \in BadMembers
    /\ files[DirFilePath][Len(files[DirFilePath])].tok = "]"
    /\ resp.status = 500

\* C24: reading the .dvc text the system generates for a file manifest gives
\* the manifest back: its hash, its size, and its original name, also when
\* the manifest has no original name.
C24_ManifestRoundTrip ==
    call.fn = "read" =>
       /\ call.result.contentHash = Some(call.arg.contentHash)
       /\ call.result.logicalSize = Some(call.arg.logicalSize)
       /\ call.result.originalName = call.arg.originalName

\* the upload that answers in this step
Answering(r) == r \in reqs /\ r.method \in Uploads /\ resp'.id = r.id

\* C25: the catalog grows only in the step in which an upload has written
\* its whole body at its location and answers 200, by one record, of that
\* upload's hash; an upload answered 400, 401 or with an I/O error adds none.
C25_RecordAfterWrite ==
    [][/\ data_items' # data_items =>
             \E r \in reqs :
                /\ Answering(r)
                /\ resp'.status = 200
                /\ r.full_path \in DOMAIN files' /\ files'[r.full_path] = r.content
                /\ data_items' = Append(data_items, data_items'[Len(data_items')])
                /\ data_items'[Len(data_items')].file_path = r.path
       /\ (resp' # resp /\ resp'.method \in Uploads /\ resp'.status # 200)
             => data_items' = data_items]_vars

\* one upload has failed during its write and another has been recorded
C25_Witness ==
    /\ resp.id = 2
    /\ resp.method \in Uploads
    /\ resp.exc = "IOError"
    /\ Len(data_items) = 1
    /\ data_items[1].file_path = p_md5_ab_cd

\* C26: where anonymous access is configured, an upload without credentials
\* is not refused; when its write completes it answers 200 without a user
\* identity, the blob is stored and the catalog is unchanged. The catalog
\* changes only in the answer to an upload of an identified user.
C26_AnonymousUploadUnrecorded ==
    [][/\ \A r \in reqs :
             (Answering(r) /\ AnonymousAllowed(cfg) /\ r.cred = c_absent) =>
                /\ resp'.exc \in {"none", "IOError", "OSError"}
                /\ data_items' = data_items
                /\ resp'.exc = "none" =>
                      /\ resp'.status = 200
                      /\ IsNone(resp'.user_email)
                      /\ r.full_path \in DOMAIN files'
                      /\ files'[r.full_path] = r.content
       /\ (resp'.id # resp.id /\ AnonymousAllowed(cfg) /\ resp'.cred = c_absent)
             => resp'.status # 401
       /\ data_items' # data_items =>
             /\ resp'.method \in Uploads
             /\ ~IsNone(resp'.user_email)
             /\ \E u \in Users : resp'.cred.authorization = Basic(u.email, u.password)]_vars

\* an upload without credentials was stored and answered 200 while
\* authentication is disabled
C26_Witness ==
    /\ ~cfg.enabled
    /\ resp.id # 0
    /\ resp.method \in Uploads
    /\ resp.cred = c_absent
    /\ resp.status = 200
    /\ IsNone(resp.user_email)
    /\ data_items = <<>>
    /\ BlobLocation(p_md5_ab_cd) \in DOMAIN files
    /\ files[BlobLocation(p_md5_ab_cd)] = Body1

\* the location of the blob of a catalog record
RecordLocation(it) ==
    PathJoin(DVC_STORAGE_PATH, <<s_files, s_md5, Prefix(it.hash, 2), Suffix(it.hash, 2)>>)

\* C27: while garbage collections run beside uploads of identified users,
\* every catalog record resolves to a stored blob.
C27_GcKeepsCataloguedBlobs ==
    \A i \in 1..Len(data_items) : RecordLocation(data_items[i]) \in DOMAIN files

\* the catalogued directories whose manifest can be read
ReadableDirs(items, FS, D) ==
    { i \in 1..Len(items) :
        /\ items[i].is_folder /\ EndsWith(items[i].hash, s_dotdir)
        /\ ~Raised(read_dir_metadata(
                get_dvc_file_path_from_hash(items[i].hash, get_dvc_storage_path).value,
                FS, D)) }

\* every member of every catalogued directory resolves to a blob, and the
\* archive of the directory has one entry for each member
MembersResolve(items, FS, D) ==
    \A i \in ReadableDirs(items, FS, D) :
        LET file_list == read_dir_metadata(
                get_dvc_file_path_from_hash(items[i].hash, get_dvc_storage_path).value,
                FS, D).value
            zip == download_data_file_result(i, FS, D, items)
        IN  /\ \A k \in 1..Len(file_list) :
                  path_is_file(os_path_parse(
                      get_dvc_file_path_from_hash(file_list[k].md5,
                                                  get_dvc_storage_path).value),
                      DOMAIN FS, D)
            /\ ~Raised(zip) /\ Len(zip.value) = Len(file_list)

\* C28: a step of a garbage collection keeps every member of a catalogued
\* directory: when all members resolved before the step they resolve after
\* it, and the archive built afterwards holds all of them.
C28_GcKeepsMembers ==
    [][ (\E r \in reqs : r.method = "GC" /\ r \notin reqs')
          /\ MembersResolve(data_items, files, dirs)
        => MembersResolve(data_items', files', dirs') ]_vars

\* the bytes a GET of request path q finds in store FS, if any
Served(q, FS, D) ==
    LET v == resolve_request_path(q, None)
    IN  IF Raised(v) THEN None
        ELSE IF ~path_is_file(v.value, DOMAIN FS, D) THEN None
        ELSE Some(FS[OsLookup(v.value, DOMAIN FS, D).loc])

\* C29: the upload to one hash-addressed path neither creates nor
\* overwrites the blob served for another hash-addressed path (another
\* namespace, or another split of the hash into segments 2 and 3).
C29_ResolutionInjective ==
    [][ \A r \in reqs :
           (r.method \in Uploads /\ resp'.id = r.id /\ HashAddressed(r.path)) =>
              \A q \in Paths(universe) \ {r.path} :
                 HashAddressed(q) => Served(q, files', dirs') = Served(q, files, dirs) ]_vars

\* C30: whatever upload-metadata requests were made and however they
\* overlapped, the uploaded_metadata table holds at most one record for each
\* file hash, and a request for a hash that has a record changes that
\* record and adds none.
C30_OneRecordPerHash ==
    /\ [](\A i, j \in 1..Len(uploaded_metadata) :
             uploaded_metadata[i].file_hash = uploaded_metadata[j].file_hash => i = j)
    /\ [][ \A r \in reqs :
             (r.method = "METADATA" /\ resp'.id = r.id /\ resp'.status = 200) =>
                LET h == parse_uploaded_dvc(r.content).value.file_hash
                    had == { i \in 1..Len(uploaded_metadata) :
                               uploaded_metadata[i].file_hash = h }
                IN  IF had = {}
                    THEN Len(uploaded_metadata') = Len(uploaded_metadata) + 1
                    ELSE /\ Len(uploaded_metadata') = Len(uploaded_metadata)
                         /\ \A i \in had :
                               uploaded_metadata'[i].original_filename =
                                  parse_uploaded_dvc(r.content).value.original_filename ]_vars

\* the first of two overlapping requests for one hash is answered after
\* the second and finds the record of the second
C30_Witness ==
    /\ resp.id = 1 /\ resp.method = "METADATA" /\ resp.status = 200
    /\ resp.body = Some(<<"updated">>)
    /\ Len(uploaded_metadata) = 1
    /\ uploaded_metadata[1].original_filename = s_a_csv

====
